---- MODULE Spec2Model ----
(***************************************************************************)
(* Model of lura's deployment coordinator: a Deployment replicates one     *)
(* Configuration per host, ThreadExecutor runs each replica in a worker    *)
(* thread and drives the three Coordinator conditions (ready, sync, done)  *)
(* from its run loop.                                                      *)
(*                                                                         *)
(* One replica = one host.  A replica's position is pc[h]; while it is in  *)
(* BaseConfiguration._wait, cond[h] names the condition.  The include list *)
(* is the library default (config_include = []).                           *)
(*                                                                         *)
(* Steps that touch only the thread's own data are taken together with the *)
(* shared access that precedes them; every read of cancelled, every        *)
(* access to a condition's waiters and every change of replica.system is a *)
(* step of its own.  Time is not modelled: in Spec a pending timeout may   *)
(* expire at any moment, in TimelySpec none expires and every thread is    *)
(* scheduled (weak fairness).                                              *)
(***************************************************************************)
EXTENDS Integers, Sequences, FiniteSets, TLC

\* Bounds of the model.
NHosts == 2
NTasks == 2

Hosts == 1..NHosts
Conds == {"ready", "sync", "done"}
Methods == {"apply", "delete", "is_applied"}

VARIABLES
  method,        \* the operation the Deployment runs
  synchronize,   \* Deployment.synchronize / Coordinator.synchronize
  fail_early,    \* Deployment.fail_early / Coordinator.fail_early
  cancelled,     \* Coordinator.cancelled
  waiters,       \* Coordinator.conditions[c]._waiters, as a set of replicas
  system,        \* replica.system is set (not None)
  changes,       \* replica.changes
  applied,       \* replica.applied (is_applied only)
  pc,            \* replica's position in _run_method
  cond,          \* the condition of the replica's current _wait ("ready" outside a run)
  k,             \* index of the replica's current Task (0 outside a run)
  exc,           \* the exception in flight in the replica
  result,        \* the worker's return value (pool.result[h])
  lpc,           \* position of the drive loop (ThreadExecutor._run)
  outcome,       \* what the Deployment call produced
  nReady,        \* history: number of notify('ready') calls of the drive loop
  nDone,         \* history: number of notify('done') calls of the drive loop
  exited         \* history: sum of the change counters of the replica's exited Tasks

\* A configuration running Task scopes on its own (no coordinator).
VARIABLES
  task,            \* the Task of the current `with self.task(...)`
  config_changes,  \* config.changes of the configuration that owns the Task
  lines,           \* the log lines the Tasks have emitted, oldest first
  ntask            \* number of Tasks constructed so far

\* One configuration's _run_method, with the coordinator seen from the replica.
VARIABLES
  run_method,      \* the operation called on the configuration
  includes,        \* len(config_include)
  run_pc,          \* position in _run_method
  events,          \* the lifecycle events so far, oldest first
  run_exc          \* the exception in flight, or the one the run ended with

\* A Configuration's declared steps against one host.
VARIABLES
  declared,        \* the config_* lists the Configuration declares (not None)
  keep,            \* config_keep_os_packages, _python_packages, _nonempty_dirs
  host,            \* the host: installed packages, directories, files, symlinks
  host0,           \* history: the host when the current operation was called
  cf_op,           \* the operation in progress ("none" between operations)
  cf_step,         \* index of the operation's next step
  cf_changes,      \* config.changes during the operation
  trace,           \* history: Task entries and exits and host changes of the operation
  returns          \* history: what each operation returned or raised, oldest first

\* One thread's run context, the guards it has entered and its last run().
VARIABLES
  ctx,             \* run.context(): the thread-local dict, key by key
  stack,           \* the guards entered and not yet left, outermost first
  raising,         \* the exception propagating out of the with statements, or "none"
  ran,             \* history: the last run() since the guards last changed
  defaults         \* run.defaults

\* scrub(obj) on one mapping.
VARIABLES
  sobj,            \* the mapping given to scrub(), which changes it in place
  sobj0,           \* history: the mapping as it was given
  scrub_done       \* scrub() has returned

\* One thread's call of Sudo.popen and the sudo child it spawns.
VARIABLES
  su_call,         \* the arguments of the call of popen
  tls,             \* self.tls: the per-call fields, NoTls when cleared
  su_pc,           \* position of the calling thread in popen
  su_exc,          \* the exception popen is raising or has raised, or "none"
  su_clock,        \* elapsed sleep intervals of _wait_for_sudo; start, timeout of _write_fifo
  state_dir,       \* the scratch directory: whether it exists, its files, the askpass script
  fifo,            \* the named pipe: a reader has it open, bytes written, what was written
  process,         \* the spawned sudo: state, argv, SUDO_ASKPASS
  su_hist          \* history: _check_ok was seen true; a write was made after that

\* One pump copying a source to its targets: the Tee thread of lura/run.py
\* or the function tee of lura/io.py run by the thread of lura.io.Tee.
VARIABLES
  tee_in,          \* which pump it is and the chunks the source will deliver
  tee_pc,          \* position of the pump thread
  tee_work,        \* the flag the loop tests: _work, or work of lura.io.Tee
  tee_rd,          \* number of chunks read from the source so far
  tee_buf,         \* the chunk read last, "" at end of input
  tee_tj,          \* index of the target the chunk goes to next
  tee_out,         \* per target, the chunks written to it
  tee_err,         \* the exception that ended the pump, or "none"
  tee_hist         \* history: stop() called, end of input read, failed reads and writes

\* One System of lura/system/coreutils.py, Local or Ssh, the files on both
\* sides, and the operation in progress.
VARIABLES
  sys_in,          \* the constructor's arguments: class, name, host, sudo
  sys_obj,         \* use_sudo of the System; _host and _conn of its ssh Client
  sys_lfs,         \* the local files: path -> bytes, Nil when absent
  sys_rfs,         \* the files of the ssh host
  sys_tmp,         \* the temp directory of put/get on the ssh host: owner, files by base name
  sys_op,          \* the operation called last: its arguments and position
  sys_exc,         \* the exception the operation raises, or "none"
  sys_trace,       \* the commands of the operation so far, each with the user it ran as
  sys_hist         \* history: operations made; a command failed by itself; the previous operation

\* One System and the sudo() and nosudo() scopes its caller has open.
VARIABLES
  sc_in,           \* the class of the System and the sudo argument of its constructor
  sc_obj,          \* use_sudo, sudo_user and sudo_login of the System
  sc_stack,        \* the scopes entered and not yet left, outermost first, with what each saved
  sc_raising,      \* an exception is propagating out of the with statements
  sc_last,         \* how the last run() was made: escalated or not, user, login
  sc_hist          \* history: a scope inside another was left by an exception

\* The worker count of the Deployment and of the pool ThreadExecutor spawns.
VARIABLES
  workers,         \* Deployment.workers, 0 for None
  wk_how,          \* how workers was given: to the constructor, or set on the object after it
  wk_pc            \* the Deployment is new, built, or its constructor has raised

\* One call of apply, delete or is_applied on a configuration that includes others.
VARIABLES
  tr_in,           \* the call: method, config_include, what each on_work does
  tr_obj,          \* each configuration object's fields
  tr_stack,        \* the frames of _run_method, outermost first
  tr_exc,          \* the exception in flight
  tr_calls,        \* history: the configurations in the order they were called
  tr_out           \* history: how each configuration's call ended

\* The mapping a program hands to run.Env, and the logger of lura.run.
VARIABLES
  env_obj,         \* the items of the mapping object the Env guard holds
  env0,            \* history: the mapping when the last run() was called
  noise            \* log.isEnabledFor(logs.NOISE)

deployVars == <<method, synchronize, fail_early, cancelled, waiters, system, changes,
                applied, pc, cond, k, exc, result, lpc, outcome, nReady, nDone, exited>>
taskVars == <<task, config_changes, lines, ntask>>
runVars == <<run_method, includes, run_pc, events, run_exc>>
confVars == <<declared, keep, host, host0, cf_op, cf_step, cf_changes, trace, returns>>
ctxVars == <<ctx, stack, raising, ran, defaults>>
scrubVars == <<sobj, sobj0, scrub_done>>
suVars == <<su_call, tls, su_pc, su_exc, su_clock, state_dir, fifo, process, su_hist>>
teeVars == <<tee_in, tee_pc, tee_work, tee_rd, tee_buf, tee_tj, tee_out, tee_err, tee_hist>>
sysVars == <<sys_in, sys_obj, sys_lfs, sys_rfs, sys_tmp, sys_op, sys_exc, sys_trace, sys_hist>>
scVars == <<sc_in, sc_obj, sc_stack, sc_raising, sc_last, sc_hist>>
wkVars == <<workers, wk_how, wk_pc>>
trVars == <<tr_in, tr_obj, tr_stack, tr_exc, tr_calls, tr_out>>
lgVars == <<env_obj, env0, noise>>
otherVars == <<taskVars, runVars, confVars, ctxVars, scrubVars, suVars, teeVars, sysVars, scVars, wkVars, trVars, lgVars>>
taskOthers == <<deployVars, runVars, confVars, ctxVars, scrubVars, suVars, teeVars, sysVars, scVars, wkVars, trVars, lgVars>>
runOthers == <<deployVars, taskVars, confVars, ctxVars, scrubVars, suVars, teeVars, sysVars, scVars, wkVars, trVars, lgVars>>
confOthers == <<deployVars, taskVars, runVars, ctxVars, scrubVars, suVars, teeVars, sysVars, scVars, wkVars, trVars, lgVars>>
ctxOthers == <<deployVars, taskVars, runVars, confVars, scrubVars, suVars, teeVars, sysVars, scVars, wkVars, trVars, lgVars>>
scrubOthers == <<deployVars, taskVars, runVars, confVars, ctxVars, suVars, teeVars, sysVars, scVars, wkVars, trVars, lgVars>>
suOthers == <<deployVars, taskVars, runVars, confVars, ctxVars, scrubVars, teeVars, sysVars, scVars, wkVars, trVars, lgVars>>
teeOthers == <<deployVars, taskVars, runVars, confVars, ctxVars, scrubVars, suVars, sysVars, scVars, wkVars, trVars, lgVars>>
sysOthers == <<deployVars, taskVars, runVars, confVars, ctxVars, scrubVars, suVars, teeVars, scVars, wkVars, trVars, lgVars>>
scOthers == <<deployVars, taskVars, runVars, confVars, ctxVars, scrubVars, suVars, teeVars, sysVars, wkVars, trVars, lgVars>>
wkOthers == <<deployVars, taskVars, runVars, confVars, ctxVars, scrubVars, suVars, teeVars, sysVars, scVars, trVars, lgVars>>
trOthers == <<deployVars, taskVars, runVars, confVars, ctxVars, scrubVars, suVars, teeVars, sysVars, scVars, wkVars, lgVars>>
lgOthers == <<deployVars, taskVars, runVars, confVars, ctxVars, scrubVars, suVars, teeVars, sysVars, scVars, wkVars, trVars>>
vars == <<deployVars, otherVars>>

coordVars == <<cancelled, waiters>>
paramVars == <<method, synchronize, fail_early>>
loopVars == <<lpc, outcome, nReady, nDone>>

NoExc == [kind |-> "none", changes |-> 0, cause |-> "none"]
Pending == [t |-> "pending", v |-> FALSE, kind |-> "none", changes |-> 0, cause |-> "none"]
NoOutcome == [t |-> "none", ok |-> <<>>, err |-> <<>>, exc |-> "none"]

\* Number of Tasks the operation's on_<op> body opens: Configuration.on_apply and
\* on_delete run a fixed list of Task scopes, on_is_applied opens none.
TaskCount == IF method = "is_applied" THEN 0 ELSE NTasks

\* Task.__init__ leaves changes = 0; before the first Task there is none.
NoTask == [st |-> "none", silent |-> FALSE, begin |-> FALSE, changes |-> 0, raised |-> FALSE]

\* BaseConfiguration.reset(): changes = 0; nothing logged, no Task made.
TaskStart ==
  /\ task = NoTask
  /\ config_changes = 0
  /\ lines = <<>>
  /\ ntask = 0

\* A configuration on which no operation has been called.
RunStartState ==
  /\ run_method = "apply"
  /\ includes = 0
  /\ run_pc = "idle"
  /\ events = <<>>
  /\ run_exc = "none"

\* A host with nothing on it.
FreshHost == [os |-> {}, pip |-> {}, dirs |-> {}, files |-> {}, links |-> {}]

\* The class defaults of Configuration: no list declared, every keep flag set.
DefaultKeep == [os |-> TRUE, pip |-> TRUE, dirs |-> TRUE]

\* The keep flags and the host of a Configuration on which nothing was called.
ConfIdle ==
  /\ host0 = host
  /\ cf_op = "none"
  /\ cf_step = 0
  /\ cf_changes = 0
  /\ trace = <<>>
  /\ returns = <<>>

ConfStart ==
  /\ declared = {}
  /\ keep = DefaultKeep
  /\ host = FreshHost
  /\ ConfIdle

\* The options of run(): the keys of run.defaults.
Options == {"mode", "env", "cwd", "shell", "stdout", "stderr", "enforce_code", "enforce",
            "sudo_user", "sudo_group", "sudo_password", "sudo_login", "sudo_timeout"}

\* The keys of run.context(): the options and the nesting counter.
Keys == Options \cup {"count"}

\* Python values: a missing key, None, a bool, an int, a str or other plain
\* object, a list and a tuple.
Val(kind, b, n, s, items) == [k |-> kind, b |-> b, n |-> n, s |-> s, items |-> items]
Absent == Val("absent", FALSE, 0, "", <<>>)
PyNone == Val("none", FALSE, 0, "", <<>>)
PyBool(b) == Val("bool", b, 0, "", <<>>)
PyInt(n) == Val("int", FALSE, n, "", <<>>)
PyObj(s) == Val("obj", FALSE, 0, s, <<>>)
PyList(items) == Val("list", FALSE, 0, "", items)
PyTuple(items) == Val("tuple", FALSE, 0, "", items)

\* A thread's context before any guard: no key.
NoContext == [name \in Keys |-> Absent]

\* A call of run() with no keyword argument.
NoArgs == [name \in Options |-> PyNone]

\* run.defaults as the module sets them.
Defaults ==
  [name \in Options |->
     CASE name = "mode" -> PyObj("popen")
       [] name \in {"stdout", "stderr"} -> PyList(<<>>)
       [] name = "enforce_code" -> PyInt(0)
       [] name = "enforce" -> PyBool(TRUE)
       [] name = "sudo_timeout" -> PyInt(3)
       [] OTHER -> PyNone]

\* No result: run() was not called since the guards last changed.
NoRan == [t |-> "none", code |-> 0, user |-> NoArgs, args |-> NoArgs, call |-> FALSE,
          ctx0 |-> NoContext, defaults0 |-> Defaults]

\* A thread that has entered no guard and called nothing.
ContextIdle ==
  /\ ctx = NoContext
  /\ stack = <<>>
  /\ raising = "none"
  /\ ran = NoRan

ContextStart ==
  /\ ContextIdle
  /\ defaults = Defaults

\* Python data as scrub() sees it: a str, a bytes, an int, a mapping (its
\* items in insertion order, each a <<name, value>> pair) and a sequence (its
\* items held as pairs too, under the empty name).  A name is the sequence of
\* its characters.
Data(cls, v, items) == [cls |-> cls, v |-> v, items |-> items]
DStr(v) == Data("str", v, <<>>)
DBytes(v) == Data("bytes", v, <<>>)
DInt(v) == Data("int", v, <<>>)
DMap(items) == Data("map", "", items)
DSeq(values) == Data("seq", "", [i \in 1..Len(values) |-> << <<>>, values[i] >>])

\* No call of scrub() is under way.
ScrubStart ==
  /\ sobj = DMap(<<>>)
  /\ sobj0 = DMap(<<>>)
  /\ scrub_done = FALSE

\* The value None of an argument or field, and of the password (a str is
\* the sequence of its pieces).
Nil == "<None>"
NoPassword == <<Nil>>

\* self.tls with no attribute.
NoTls == [set |-> FALSE, argv |-> <<>>, user |-> Nil, group |-> Nil, login |-> FALSE,
          password |-> NoPassword, timeout |-> 0, state_dir |-> Nil, fifo |-> Nil]

\* No scratch directory, no pipe, no child.
NoDir == [exists |-> FALSE, files |-> {}, script |-> <<>>]
NoFifo == [reader |-> FALSE, i |-> 0, data |-> <<>>]
NoProcess == [st |-> "none", argv |-> <<>>, askpass |-> Nil]

\* Sudo.__init__: nothing called yet.
SudoIdle ==
  /\ tls = NoTls
  /\ su_pc = "idle"
  /\ su_exc = "none"
  /\ su_clock = [elapsed |-> 0, wstart |-> 0, wtimeout |-> 0]
  /\ state_dir = NoDir
  /\ fifo = NoFifo
  /\ process = NoProcess
  /\ su_hist = [ok_seen |-> FALSE, late_write |-> FALSE]

SudoStart ==
  /\ su_call = [argv |-> <<"id">>, user |-> Nil, group |-> Nil, login |-> FALSE,
                password |-> NoPassword]
  /\ SudoIdle

\* A pump that was constructed and not started.
NoTeeHist ==
  [stopped |-> FALSE, eof |-> FALSE, rfailed |-> FALSE, wfailed |-> {}, after |-> 0]

TeeIdle ==
  /\ tee_pc = "new"
  /\ tee_work = FALSE
  /\ tee_rd = 0
  /\ tee_buf = ""
  /\ tee_tj = 1
  /\ tee_out = <<<<>>, <<>>>>
  /\ tee_err = "none"
  /\ tee_hist = NoTeeHist

TeeStart ==
  /\ tee_in = [pump |-> "run.Tee", src |-> <<>>]
  /\ TeeIdle

\* No temp directory; no operation called.
NoTmp == [exists |-> FALSE, owner |-> Nil, files |-> [b \in {"a", "b", "c"} |-> Nil]]
NoSysOp == [name |-> "none", src |-> Nil, dst |-> Nil, pc |-> "idle", whoami |-> Nil,
            sudo0 |-> FALSE]
NoPrevOp == [name |-> "none", dst |-> Nil, bytes |-> Nil, ok |-> FALSE, envfail |-> FALSE]

\* The files before any operation: one local file to put, an old file at one
\* of the destinations.
SysFiles0 ==
  /\ sys_lfs = [p \in {"/d/a", "/e/a", "/e/b", "/f/c"} |-> IF p = "/d/a" THEN "new" ELSE Nil]
  /\ sys_rfs = [p \in {"/d/a", "/e/a", "/e/b", "/f/c"} |-> IF p = "/e/b" THEN "old" ELSE Nil]

SysIdle ==
  /\ SysFiles0
  /\ sys_tmp = NoTmp
  /\ sys_op = NoSysOp
  /\ sys_exc = "none"
  /\ sys_trace = <<>>
  /\ sys_hist = [ops |-> 0, envfail |-> FALSE, prev |-> NoPrevOp]

\* System.__init__ and ssh.Client.__init__: not connected.
constructed(in) == [use_sudo |-> in.sudo, _host |-> in.host, _conn |-> Nil]

SysStart ==
  /\ sys_in = [cls |-> "Local", name |-> Nil, host |-> "localhost", sudo |-> FALSE]
  /\ sys_obj = constructed(sys_in)
  /\ SysIdle

\* System.__init__: use_sudo from the argument, no sudo user, a login shell.
initialized(sudo) == [use_sudo |-> sudo, sudo_user |-> Nil, sudo_login |-> TRUE]

NoRunYet == [made |-> FALSE, sudo |-> FALSE, user |-> Nil, login |-> FALSE]

ScopeIdle ==
  /\ sc_obj = initialized(sc_in.sudo)
  /\ sc_stack = <<>>
  /\ sc_raising = FALSE
  /\ sc_last = NoRunYet
  /\ sc_hist = FALSE

ScopeStart ==
  /\ sc_in = [cls |-> "Local", sudo |-> FALSE]
  /\ ScopeIdle

\* A Deployment built without a worker count.
PoolStart ==
  /\ workers = 0
  /\ wk_how = "none"
  /\ wk_pc = "built"

\* The configuration objects of a tree: 1 includes among 2 and 3, 2 may include 4.
TreeNodes == 1..4

\* BaseConfiguration.reset(): the fields of an object on which nothing runs.
reset_fields ==
  [parent |-> 0, system |-> Nil, coordinator |-> Nil, packages |-> Nil, args |-> Nil,
   kwargs |-> Nil, changes |-> 0]

\* No exception; no outcome.
NoTreeExc == [kind |-> "none", changes |-> 0, cause |-> "none"]
NoTreeOut == [t |-> "none", changes |-> 0, applied |-> FALSE, total |-> 0, cancelled |-> FALSE]

\* A configuration on which nothing was called.
TreeIdle ==
  /\ tr_obj = [n \in TreeNodes |-> reset_fields]
  /\ tr_stack = <<>>
  /\ tr_exc = NoTreeExc
  /\ tr_calls = <<>>
  /\ tr_out = [n \in TreeNodes |-> NoTreeOut]

TreeStart ==
  /\ tr_in = [method |-> "apply", include |-> [n \in TreeNodes |-> <<>>],
              own |-> [n \in TreeNodes |-> 0], ok |-> [n \in TreeNodes |-> TRUE],
              bad |-> 0, error |-> "Error", at |-> "work", coordinator |-> Nil,
              fail_early |-> FALSE]
  /\ TreeIdle

\* A program without an environment of its own, logging above NOISE.
LogStart ==
  /\ env_obj = DMap(<<>>)
  /\ env0 = DMap(<<>>)
  /\ noise = FALSE

\* The parts of the program a specification does not exercise stay as
\* constructed.
OthersStart ==
  /\ TaskStart
  /\ RunStartState
  /\ ConfStart
  /\ ContextStart
  /\ ScrubStart
  /\ SudoStart
  /\ TeeStart
  /\ SysStart
  /\ ScopeStart
  /\ PoolStart
  /\ TreeStart
  /\ LogStart

\* Coordinator.__init__, BaseConfiguration.reset, ThreadPool not yet started.
DeployStart ==
  /\ cancelled = FALSE
  /\ waiters = [c \in Conds |-> {}]
  /\ system = [h \in Hosts |-> FALSE]
  /\ changes = [h \in Hosts |-> 0]
  /\ applied = [h \in Hosts |-> FALSE]
  /\ pc = [h \in Hosts |-> "idle"]
  /\ cond = [h \in Hosts |-> "ready"]
  /\ k = [h \in Hosts |-> 0]
  /\ exc = [h \in Hosts |-> NoExc]
  /\ result = [h \in Hosts |-> Pending]
  /\ lpc = "wait_start"
  /\ outcome = NoOutcome
  /\ nReady = 0
  /\ nDone = 0
  /\ exited = [h \in Hosts |-> 0]

\* A Deployment that is constructed and never run.
DeployParked ==
  /\ method = "apply"
  /\ synchronize = FALSE
  /\ fail_early = FALSE
  /\ DeployStart

Init ==
  /\ method \in Methods
  /\ synchronize \in BOOLEAN
  /\ fail_early \in BOOLEAN
  /\ DeployStart
  /\ OthersStart

(***************************************************************************)
(* Coordinator                                                             *)
(***************************************************************************)

\* Coordinator.active: the replicas whose system is set.
active == {h \in Hosts : system[h]}

\* awaiting with the comparison against the number of active replicas lost:
\* one waiter is enough.
awaiting_one(c) ==
  IF c = "sync" /\ ~synchronize
    THEN FALSE
    ELSE Cardinality(waiters[c]) >= 1

\* Coordinator.awaiting(c).
awaiting(c) ==
  IF c = "sync" /\ ~synchronize
    THEN FALSE
    ELSE Cardinality(waiters[c]) >= Cardinality(active)

\* A notify_all that wakes nobody.
Woken_none(cs) == pc

\* The replicas' positions after Condition.notify_all on the conditions cs:
\* every waiter leaves _waiters and Condition.wait returns True in its thread.
Woken(cs) ==
  [h \in Hosts |->
     IF pc[h] = "parked" /\ cond[h] \in cs /\ h \in waiters[cond[h]]
       THEN "wait_recheck" ELSE pc[h]]

\* Coordinator.notify(c): notify_all under the condition's lock.
notify(c) ==
  /\ waiters' = [waiters EXCEPT ![c] = {}]
  /\ pc' = Woken({c})

\* lura.time.poll(test, retries=0) / poll(test, timeout=t): the value of one
\* evaluation of test; with a timeout the caller retries until the deadline.
poll(test) == test

\* Coordinator.cancel(): under all three locks, set cancelled and notify_all on
\* every condition.  Gives the waiters and the replicas' positions afterwards.
cancel_waiters == [c \in Conds |-> {}]
cancel_pc == Woken(Conds)

\* Coordinator.wait(c) returns at once for sync when synchronize is off.
wait_is_noop(c) == c = "sync" /\ ~synchronize

\* The timeout BaseConfiguration passes to _wait: config_ready_timeout = 2.0,
\* config_sync_timeout = config_done_timeout = None.
has_timeout(c) == c = "ready"

(***************************************************************************)
(* Replica: BaseConfiguration._run_method in a pool worker                 *)
(***************************************************************************)

\* Cancel(config) / Fail(config, exc_info): changes = config.changes.
Cancel(h) == [kind |-> "Cancel", changes |-> changes[h], cause |-> "none"]
Fail(h, cause) == [kind |-> "Fail", changes |-> changes[h], cause |-> cause]
Raised(kind) == [kind |-> kind, changes |-> 0, cause |-> "none"]

\* Cancel.update(config) / Fail.update(config).
update(e, h) == [e EXCEPT !.changes = e.changes + changes[h]]

\* Where _run_method continues when _wait(c) returns normally.
after_wait(c) ==
  CASE c = "ready" -> "on_start"
    [] c = "sync" -> "body"
    [] c = "done" -> "return"

\* A replica that enters _ready before its system is bound.
Start_unbound(h) ==
  /\ pc[h] = "idle"
  /\ system' = system
  /\ pc' = [pc EXCEPT ![h] = "wait_check"]
  /\ cond' = [cond EXCEPT ![h] = "ready"]
  /\ UNCHANGED otherVars
  /\ UNCHANGED <<paramVars, coordVars, changes, applied, k, exc, result, loopVars, exited>>

\* The worker calls replica.<op>(system, coordinator=coord): _run_method binds
\* system and coordinator and enters _ready(), which calls _wait('ready').
Start(h) ==
  /\ pc[h] = "idle"
  /\ system' = [system EXCEPT ![h] = TRUE]
  /\ pc' = [pc EXCEPT ![h] = "wait_check"]
  /\ cond' = [cond EXCEPT ![h] = "ready"]
  /\ UNCHANGED otherVars
  /\ UNCHANGED <<paramVars, coordVars, changes, applied, k, exc, result, loopVars, exited>>

\* _wait with its checks of cancelled dropped.
check_cancelled_never == FALSE

\* `if self.coordinator.cancelled: raise Cancel(self)`, the test of _wait before
\* and after Coordinator.wait.
check_cancelled == cancelled

\* _wait: the check of coordinator.cancelled before Coordinator.wait.  When
\* Coordinator.wait is a no-op the check after it follows at once and reads
\* the same flag (cancelled is never cleared), so _wait is one step there.
WaitCheck(h) ==
  /\ pc[h] = "wait_check"
  /\ IF check_cancelled
       THEN /\ exc' = [exc EXCEPT ![h] = Cancel(h)]
            /\ pc' = [pc EXCEPT ![h] = "handler"]
       ELSE /\ exc' = exc
            /\ pc' = [pc EXCEPT ![h] =
                        IF wait_is_noop(cond[h]) THEN after_wait(cond[h]) ELSE "wait_enter"]
  /\ UNCHANGED otherVars
  /\ UNCHANGED <<paramVars, coordVars, system, changes, applied, cond, k, result,
                 loopVars, exited>>

\* Coordinator.wait: take the condition's lock and wait on it.
WaitEnter(h) ==
  /\ pc[h] = "wait_enter"
  /\ waiters' = [waiters EXCEPT ![cond[h]] = @ \cup {h}]
  /\ pc' = [pc EXCEPT ![h] = "parked"]
  /\ UNCHANGED otherVars
  /\ UNCHANGED <<paramVars, cancelled, system, changes, applied, cond, k, exc, result,
                 loopVars, exited>>

\* Condition.wait(timeout) returns False: Coordinator.wait raises TimeoutError.
WaitTimeout(h) ==
  /\ pc[h] = "parked"
  /\ h \in waiters[cond[h]]
  /\ has_timeout(cond[h])
  /\ waiters' = [waiters EXCEPT ![cond[h]] = @ \ {h}]
  /\ exc' = [exc EXCEPT ![h] = Raised("TimeoutError")]
  /\ pc' = [pc EXCEPT ![h] = "handler"]
  /\ UNCHANGED otherVars
  /\ UNCHANGED <<paramVars, cancelled, system, changes, applied, cond, k, result,
                 loopVars, exited>>

\* _wait: the check of coordinator.cancelled after Coordinator.wait returned.
WaitRecheck(h) ==
  /\ pc[h] = "wait_recheck"
  /\ IF check_cancelled
       THEN /\ exc' = [exc EXCEPT ![h] = Cancel(h)]
            /\ pc' = [pc EXCEPT ![h] = "handler"]
       ELSE /\ exc' = exc
            /\ pc' = [pc EXCEPT ![h] = after_wait(cond[h])]
  /\ UNCHANGED otherVars
  /\ UNCHANGED <<paramVars, coordVars, system, changes, applied, cond, k, result,
                 loopVars, exited>>

\* Task.__enter__ of Task i (sync=True): config.sync() = _wait('sync').
\* After the last Task: on_finish(), then _done() = _wait('done').
NextWait(h, i) ==
  /\ pc' = [pc EXCEPT ![h] = "wait_check"]
  /\ IF i <= TaskCount
       THEN cond' = [cond EXCEPT ![h] = "sync"] /\ k' = [k EXCEPT ![h] = i]
       ELSE cond' = [cond EXCEPT ![h] = "done"] /\ k' = k

\* _run_includes (no includes), changes += sum([]), on_start(), then on_work.
RunStart(h) ==
  /\ pc[h] = "on_start"
  /\ IF TaskCount = 0
       THEN pc' = [pc EXCEPT ![h] = "work"] /\ UNCHANGED <<cond, k>>
       ELSE NextWait(h, 1)
  /\ UNCHANGED otherVars
  /\ UNCHANGED <<paramVars, coordVars, system, changes, applied, exc, result,
                 loopVars, exited>>

\* Task.change(count=1): what one `+task` adds to the Task's counter.
change_count == 1

\* The body of Task k[h] changes the host (+task) or not, and either finishes or
\* raises; Task.__exit__ adds the Task's counter to config.changes on both paths.
Body(h) ==
  /\ pc[h] = "body"
  /\ \E c \in {0, change_count}, raises \in BOOLEAN :
       /\ changes' = [changes EXCEPT ![h] = @ + c]
       /\ exited' = [exited EXCEPT ![h] = @ + c]
       /\ IF raises
            THEN /\ exc' = [exc EXCEPT ![h] = Raised("Error")]
                 /\ pc' = [pc EXCEPT ![h] = "handler"]
                 /\ UNCHANGED <<cond, k>>
            ELSE /\ exc' = exc
                 /\ NextWait(h, k[h] + 1)
  /\ UNCHANGED otherVars
  /\ UNCHANGED <<paramVars, coordVars, system, applied, result, loopVars>>

\* on_is_applied: a predicate without Tasks; applied = all([] + [res]).
Predicate(h) ==
  /\ pc[h] = "work"
  /\ \E res \in BOOLEAN, raises \in BOOLEAN :
       IF raises
         THEN /\ exc' = [exc EXCEPT ![h] = Raised("Error")]
              /\ pc' = [pc EXCEPT ![h] = "handler"]
              /\ UNCHANGED <<applied, cond, k>>
         ELSE /\ exc' = exc
              /\ applied' = [applied EXCEPT ![h] = res]
              /\ NextWait(h, 1)
  /\ UNCHANGED otherVars
  /\ UNCHANGED <<paramVars, coordVars, system, changes, result, loopVars, exited>>

\* _cancel that never cancels the coordinator.
cancel_on_failure_never == FALSE

\* BaseConfiguration._cancel(): cancel the coordinator when fail_early is set.
cancel_on_failure == fail_early

\* The except clause of _run_method.
Handler(h) ==
  /\ pc[h] = "handler"
  /\ IF exc[h].kind \in {"Cancel", "Fail"}
       THEN /\ exc' = [exc EXCEPT ![h] = update(exc[h], h)]
            /\ pc' = [pc EXCEPT ![h] = "raising"]
            /\ UNCHANGED coordVars
       ELSE /\ exc' = [exc EXCEPT ![h] = Fail(h, exc[h].kind)]
            /\ IF cancel_on_failure
                 THEN /\ cancelled' = TRUE
                      /\ waiters' = cancel_waiters
                      /\ pc' = [cancel_pc EXCEPT ![h] = "raising"]
                 ELSE /\ pc' = [pc EXCEPT ![h] = "raising"]
                      /\ UNCHANGED coordVars
  /\ UNCHANGED otherVars
  /\ UNCHANGED <<paramVars, system, changes, applied, cond, k, result, loopVars, exited>>

\* A reset that leaves the system bound.
reset_system_kept(h) == system

\* BaseConfiguration.reset(), run by the finally clause of _run_method.
reset_system(h) == [system EXCEPT ![h] = FALSE]

\* reset(): self.changes = 0.
reset_changes(h) == [changes EXCEPT ![h] = 0]

\* sys.exc_info() as the worker returns it.
ExcInfo(e) ==
  [t |-> "exc_info", v |-> FALSE, kind |-> e.kind, changes |-> e.changes, cause |-> e.cause]

\* The exception leaves _run_method (finally: reset) and the worker
\* (_apply, _delete, _is_applied) returns sys.exc_info().
Exit(h) ==
  /\ pc[h] = "raising"
  /\ system' = reset_system(h)
  /\ changes' = reset_changes(h)
  /\ result' = [result EXCEPT ![h] = ExcInfo(exc[h])]
  /\ exc' = [exc EXCEPT ![h] = NoExc]
  /\ pc' = [pc EXCEPT ![h] = "exited"]
  /\ cond' = [cond EXCEPT ![h] = "ready"]
  /\ k' = [k EXCEPT ![h] = 0]
  /\ UNCHANGED otherVars
  /\ UNCHANGED <<paramVars, coordVars, applied, loopVars, exited>>

\* What the worker returns when the operation returns: _apply and _delete drop
\* the operation's value (None), _is_applied returns it.
WorkerValue(h) ==
  IF method = "is_applied"
    THEN [t |-> "bool", v |-> applied[h], kind |-> "none", changes |-> 0, cause |-> "none"]
    ELSE [t |-> "None", v |-> FALSE, kind |-> "none", changes |-> 0, cause |-> "none"]

\* _run_method returns (finally: reset) and the worker returns.
Return(h) ==
  /\ pc[h] = "return"
  /\ system' = reset_system(h)
  /\ changes' = reset_changes(h)
  /\ result' = [result EXCEPT ![h] = WorkerValue(h)]
  /\ pc' = [pc EXCEPT ![h] = "exited"]
  /\ cond' = [cond EXCEPT ![h] = "ready"]
  /\ k' = [k EXCEPT ![h] = 0]
  /\ UNCHANGED otherVars
  /\ UNCHANGED <<paramVars, coordVars, applied, exc, loopVars, exited>>

Replica(h) ==
  \/ Start(h)
  \/ WaitCheck(h)
  \/ WaitEnter(h)
  \/ WaitRecheck(h)
  \/ RunStart(h)
  \/ Body(h)
  \/ Predicate(h)
  \/ Handler(h)
  \/ Exit(h)
  \/ Return(h)

(***************************************************************************)
(* Drive loop: ThreadExecutor._run and _run_loop                           *)
(***************************************************************************)

\* _wait_for_start's test: every replica has bound its system.
all_started == \A h \in Hosts : system[h]

\* _wait_for_start returns once poll(test) is true.
WaitForStart ==
  /\ lpc = "wait_start"
  /\ poll(all_started)
  /\ lpc' = "wait_ready"
  /\ UNCHANGED otherVars
  /\ UNCHANGED <<paramVars, coordVars, system, changes, applied, pc, cond, k, exc,
                 result, outcome, nReady, nDone, exited>>

\* _wait_for_ready returns once coord.poll('ready') is true.
WaitForReady ==
  /\ lpc = "wait_ready"
  /\ poll(awaiting("ready"))
  /\ lpc' = "notify_ready"
  /\ UNCHANGED otherVars
  /\ UNCHANGED <<paramVars, coordVars, system, changes, applied, pc, cond, k, exc,
                 result, outcome, nReady, nDone, exited>>

\* threads_start_timeout / threads_ready_timeout expire while the test is
\* false: _wait_for_start raises TimeoutError, _wait_for_ready RuntimeError.
LoopTimeout ==
  /\ \/ lpc = "wait_start" /\ ~poll(all_started)
        /\ outcome' = [outcome EXCEPT !.exc = "TimeoutError"]
     \/ lpc = "wait_ready" /\ ~poll(awaiting("ready"))
        /\ outcome' = [outcome EXCEPT !.exc = "RuntimeError"]
  /\ lpc' = "except"
  /\ UNCHANGED otherVars
  /\ UNCHANGED <<paramVars, coordVars, system, changes, applied, pc, cond, k, exc,
                 result, nReady, nDone, exited>>

\* coord.notify('ready').
NotifyReady ==
  /\ lpc = "notify_ready"
  /\ notify("ready")
  /\ nReady' = nReady + 1
  /\ lpc' = "loop"
  /\ UNCHANGED otherVars
  /\ UNCHANGED <<paramVars, cancelled, system, changes, applied, cond, k, exc,
                 result, outcome, nDone, exited>>

\* A run loop that leaves at its first test.
loop_exits_at_once == TRUE

\* The while condition: not (coord.poll('done', retries=0) or coord.cancelled).
loop_exits == poll(awaiting("done")) \/ cancelled

LoopTest ==
  /\ lpc = "loop"
  /\ lpc' = IF loop_exits THEN "after_loop" ELSE "sync_test"
  /\ UNCHANGED otherVars
  /\ UNCHANGED <<paramVars, coordVars, system, changes, applied, pc, cond, k, exc,
                 result, outcome, nReady, nDone, exited>>

\* if coord.poll('sync', retries=0): ... ; else sleep and loop.
SyncTest ==
  /\ lpc = "sync_test"
  /\ lpc' = IF poll(awaiting("sync")) THEN "notify_sync" ELSE "loop"
  /\ UNCHANGED otherVars
  /\ UNCHANGED <<paramVars, coordVars, system, changes, applied, pc, cond, k, exc,
                 result, outcome, nReady, nDone, exited>>

\* coord.notify('sync'), then sleep and loop.
NotifySync ==
  /\ lpc = "notify_sync"
  /\ notify("sync")
  /\ lpc' = "loop"
  /\ UNCHANGED otherVars
  /\ UNCHANGED <<paramVars, cancelled, system, changes, applied, cond, k, exc,
                 result, outcome, nReady, nDone, exited>>

\* After the loop: if not coord.cancelled: coord.notify('done').
AfterLoop ==
  /\ lpc = "after_loop"
  /\ IF ~cancelled
       THEN notify("done") /\ nDone' = nDone + 1
       ELSE UNCHANGED <<waiters, pc, nDone>>
  /\ lpc' = "join"
  /\ UNCHANGED otherVars
  /\ UNCHANGED <<paramVars, cancelled, system, changes, applied, cond, k, exc,
                 result, outcome, nReady, exited>>

\* The pool thread is alive until every worker has returned.
pool_alive == \E h \in Hosts : result[h].t = "pending"

\* pool.join() returns; _run returns pool.result.
Join ==
  /\ lpc = "join"
  /\ ~pool_alive
  /\ lpc' = "returned"
  /\ UNCHANGED otherVars
  /\ UNCHANGED <<paramVars, coordVars, system, changes, applied, pc, cond, k, exc,
                 result, outcome, nReady, nDone, exited>>

\* except BaseException: if pool.isAlive(): coord.cancel(); pool.join().
LoopExcept ==
  /\ lpc = "except"
  /\ IF pool_alive
       THEN /\ cancelled' = TRUE
            /\ waiters' = cancel_waiters
            /\ pc' = cancel_pc
       ELSE UNCHANGED <<cancelled, waiters, pc>>
  /\ lpc' = "join_raise"
  /\ UNCHANGED otherVars
  /\ UNCHANGED <<paramVars, system, changes, applied, cond, k, exc, result, outcome,
                 nReady, nDone, exited>>

\* pool.join() returns and the exception is re-raised out of the Deployment call.
JoinRaise ==
  /\ lpc = "join_raise"
  /\ ~pool_alive
  /\ lpc' = "finished"
  /\ outcome' = [outcome EXCEPT !.t = "raise"]
  /\ UNCHANGED otherVars
  /\ UNCHANGED <<paramVars, coordVars, system, changes, applied, pc, cond, k, exc,
                 result, nReady, nDone, exited>>

(***************************************************************************)
(* Deployment                                                              *)
(***************************************************************************)

\* A truth value under which an exc_info triple counts as false.
Truthy_bool_only(r) == r.t = "bool" /\ r.v

\* Python truth value of a worker's return value: None and False are false,
\* True and a sys.exc_info() triple are true.
Truthy(r) == r.t = "exc_info" \/ (r.t = "bool" /\ r.v)

\* range(0, len(res)), the systems named by their index.
Indices == [i \in 1..NHosts |-> i]

\* An ok list without its filter.
format_ok_all(res) == Indices

\* Deployment._format_result(res): the ok list.
format_ok(res) == SelectSeq(Indices, LAMBDA i : ~Truthy(res[i]))

\* Deployment._format_result(res): the err list of (system, res) pairs.
format_err(res) ==
  LET s == SelectSeq(Indices, LAMBDA i : Truthy(res[i]))
  IN  [j \in 1..Len(s) |-> <<s[j], res[s[j]]>>]

\* Deployment.apply calls self._format_result; Deployment.delete and
\* Deployment.is_applied call self._format_results, which Deployment lacks.
has_formatter == method = "apply"

\* The Deployment method after ThreadExecutor returned pool.result.
Finish ==
  /\ lpc = "returned"
  /\ lpc' = "finished"
  /\ outcome' = IF has_formatter
                  THEN [t |-> "pair", ok |-> format_ok(result),
                        err |-> format_err(result), exc |-> "none"]
                  ELSE [t |-> "raise", ok |-> <<>>, err |-> <<>>, exc |-> "AttributeError"]
  /\ UNCHANGED otherVars
  /\ UNCHANGED <<paramVars, coordVars, system, changes, applied, pc, cond, k, exc,
                 result, nReady, nDone, exited>>

\* The drive loop's thread, as long as nothing raises in it.
DriveLoop ==
  \/ WaitForStart
  \/ WaitForReady
  \/ NotifyReady
  \/ LoopTest
  \/ SyncTest
  \/ NotifySync
  \/ AfterLoop
  \/ Join
  \/ Finish

\* The expiry of a timeout, in the drive loop or in a replica's wait, and the
\* drive loop's handling of its own.
Timeouts ==
  \/ LoopTimeout
  \/ LoopExcept
  \/ JoinRaise
  \/ \E h \in Hosts : WaitTimeout(h)

Next ==
  \/ \E h \in Hosts : Replica(h)
  \/ DriveLoop
  \/ Timeouts

Spec == Init /\ [][Next]_vars

\* The run under timely scheduling: no timeout expires.
NextTimely ==
  \/ \E h \in Hosts : Replica(h)
  \/ DriveLoop

\* Every thread that can run does run.
Fairness ==
  /\ \A h \in Hosts : WF_vars(Replica(h))
  /\ WF_vars(DriveLoop)

TimelySpec == Init /\ [][NextTimely]_vars /\ Fairness

(***************************************************************************)
(* Properties                                                              *)
(***************************************************************************)

\* The positions of a replica inside BaseConfiguration._wait.
InWait(h) == pc[h] \in {"wait_check", "wait_enter", "parked", "wait_recheck"}

\* No replica has raised: no exception is in flight and no worker captured one.
NoFailure == \A h \in Hosts : exc[h].kind = "none" /\ result[h].t # "exc_info"

\* The number of Tasks whose scope the replica has left.
TasksFinished(h) ==
  CASE pc[h] = "exited" -> IF result[h].t = "exc_info" THEN 0 ELSE TaskCount
    [] pc[h] \in {"idle", "on_start", "work"} -> 0
    [] pc[h] = "return" -> TaskCount
    [] (InWait(h) \/ pc[h] \in {"handler", "raising"}) /\ cond[h] = "ready" -> 0
    [] (InWait(h) \/ pc[h] \in {"handler", "raising"}) /\ cond[h] = "done" -> TaskCount
    [] OTHER -> k[h] - 1

\* C1: lockstep at sync.  With synchronize on and no failure or cancellation, a
\* replica is in the body of its (j+1)-th Task only when every replica has left
\* its j-th Task, and the drive loop is about to notify sync only when every
\* active replica is among the waiters on sync.
C1_Lockstep ==
  (synchronize /\ ~cancelled /\ NoFailure) =>
    /\ \A h \in Hosts : pc[h] = "body" =>
          \A g \in Hosts : TasksFinished(g) >= k[h] - 1
    /\ lpc = "notify_sync" => (active # {} /\ active \subseteq waiters["sync"])

\* C1 witness: one replica runs the body of its second Task while another,
\* having left its first Task and been woken from sync by the same notify, has
\* not yet started its second.
C1_Witness ==
  /\ synchronize /\ ~cancelled /\ NoFailure
  /\ \E h, g \in Hosts :
       /\ h # g
       /\ pc[h] = "body" /\ k[h] = 2
       /\ pc[g] = "wait_recheck" /\ cond[g] = "sync" /\ k[g] = 2

\* C2: cancellation liveness.  Once cancelled is true, a replica inside _wait
\* (at its first check, about to wait, waiting, or woken) eventually leaves it
\* by raising Cancel; it does not stay blocked on the condition.
C2_CancelLiveness ==
  \A h \in Hosts :
    (cancelled /\ InWait(h)) ~> (pc[h] = "handler" /\ exc[h].kind = "Cancel")

\* C3: barrier liveness.  Without cancellation, when every active replica is
\* parked on a condition, the drive loop eventually notifies it and each of
\* the waiters returns from _wait normally.
C3_BarrierLiveness ==
  \A c \in Conds : \A h \in Hosts :
    (~cancelled /\ pc[h] = "parked" /\ cond[h] = c /\ active \subseteq waiters[c])
      ~> (cancelled \/ pc[h] = after_wait(c))

\* C3 witness: with no cancellation and no failure every replica was parked at
\* done, done was notified and a waiter has returned from its wait on done.
C3_Witness ==
  /\ ~cancelled /\ NoFailure /\ synchronize
  /\ nDone = 1
  /\ waiters["done"] = {}
  /\ \E h \in Hosts : pc[h] = "return"
  /\ \E g \in Hosts : pc[g] = "wait_recheck" /\ cond[g] = "done"

OkHosts == {outcome.ok[i] : i \in DOMAIN outcome.ok}
ErrHosts == {outcome.err[i][1] : i \in DOMAIN outcome.err}

\* The worker of h captured the Fail that wraps an exception raised by a step.
StepRaised(h) ==
  result[h].t = "exc_info" /\ result[h].kind = "Fail" /\ result[h].cause = "Error"

\* The case of C5: fail_early is set and exactly one host's step raised.
OneStepRaised ==
  /\ outcome.t = "pair"
  /\ fail_early
  /\ Cardinality({h \in Hosts : StepRaised(h)}) = 1

\* C5 as claimed: with fail_early and exactly one host's step raising, err holds
\* exactly the failing host and ok holds every other host.
C5_OnlyFailingHostInErr ==
  OneStepRaised =>
    /\ ErrHosts = {h \in Hosts : StepRaised(h)}
    /\ OkHosts = Hosts \ ErrHosts

\* C5 amended: with fail_early and exactly one host's step raising, err holds
\* every host, the failing host with its Fail and every other host with the
\* Cancel that the cancellation raised in it (or with the Fail that wraps the
\* TimeoutError of its wait on ready), and ok is empty.
C5_AllHostsInErr ==
  OneStepRaised =>
    /\ ErrHosts = Hosts
    /\ OkHosts = {}
    /\ \A i \in DOMAIN outcome.err :
          LET h == outcome.err[i][1]
              r == outcome.err[i][2]
          IN  /\ r = result[h]
              /\ \/ StepRaised(h)
                 \/ r.kind = "Cancel"
                 \/ r.kind = "Fail" /\ r.cause = "TimeoutError"

\* C5 witness: a fail-fast apply over the fleet has returned its pair after one
\* host's step raised and another host was cancelled.
C5_Witness ==
  /\ OneStepRaised
  /\ \E h, g \in Hosts : StepRaised(h) /\ result[g].kind = "Cancel" /\ g \in ErrHosts

\* C6: fail-fast trigger.  When the except clause of _run_method handles an
\* exception that is neither Cancel nor Fail, then with fail_early the step sets
\* cancelled, empties the waiters of all three conditions and wakes every parked
\* replica, and without fail_early it leaves cancelled as it was; while the
\* resulting Fail leaves _run_method under fail_early, cancelled is true.
C6_FailFastTrigger ==
  /\ [](\A h \in Hosts :
          (pc[h] = "raising" /\ exc[h].kind = "Fail" /\ exc[h].cause # "none" /\ fail_early)
            => cancelled)
  /\ [][\A h \in Hosts :
          (pc[h] = "handler" /\ exc[h].kind \notin {"Cancel", "Fail"} /\ pc'[h] = "raising")
            => IF fail_early
                 THEN /\ cancelled'
                      /\ \A c \in Conds : waiters'[c] = {}
                      /\ \A g \in Hosts : pc[g] = "parked" => pc'[g] = "wait_recheck"
                 ELSE cancelled' = cancelled]_vars

\* C6 witness: under fail_early a step's exception has been wrapped in Fail and
\* is leaving _run_method, cancelled is set and a replica that was parked at
\* sync has been woken.
C6_Witness ==
  \E h, g \in Hosts :
    /\ fail_early /\ cancelled
    /\ pc[h] = "raising" /\ exc[h].kind = "Fail" /\ exc[h].cause = "Error"
    /\ pc[g] = "wait_recheck" /\ cond[g] = "sync"
    /\ waiters["sync"] = {}

\* The number of entries of the ok list and of the err list that name host h.
CountOk(h) == Cardinality({i \in DOMAIN outcome.ok : outcome.ok[i] = h})
CountErr(h) == Cardinality({i \in DOMAIN outcome.err : outcome.err[i][1] = h})

\* C7: result classification for apply.  Every host appears exactly once, in ok
\* or in err, and in err exactly when its worker returned captured exception
\* info, which is then the second component of its err entry.
C7_ApplyClassification ==
  (outcome.t = "pair") =>
    \A h \in Hosts :
      /\ CountOk(h) + CountErr(h) = 1
      /\ CountErr(h) = 1 <=> result[h].t = "exc_info"
      /\ \A i \in DOMAIN outcome.err : outcome.err[i][1] = h => outcome.err[i][2] = result[h]

\* C7 witness: an apply without fail_early has returned a pair with a host in
\* ok and a host in err.
C7_Witness ==
  /\ outcome.t = "pair" /\ method = "apply" /\ ~fail_early
  /\ OkHosts # {} /\ ErrHosts # {}

\* C8 as claimed: each of apply, delete and is_applied, once the executor has
\* returned the workers' results, produces a pair in which a host whose worker
\* returned a value is a success and a host whose worker captured an exception
\* is a failure.
C8_PairForEveryOperation ==
  (lpc = "finished" /\ outcome.exc \notin {"TimeoutError", "RuntimeError"}) =>
    /\ outcome.t = "pair"
    /\ \A h \in Hosts :
          /\ result[h].t \in {"None", "bool"} => (h \in OkHosts /\ h \notin ErrHosts)
          /\ result[h].t = "exc_info" => (h \in ErrHosts /\ h \notin OkHosts)

\* C9 as claimed: the changes field of a Cancel or Fail that reaches the worker
\* is the sum of the change counters of the Tasks that exited in the replica.
C9_CarrierHoldsChanges ==
  \A h \in Hosts :
    result[h].t = "exc_info" => result[h].changes = exited[h]

\* C10: ready and done fire once.  The drive loop notifies ready at most once
\* and done at most once; a replica is past its wait on ready only after the
\* notification of ready; done is notified only when every active replica is
\* parked at done; an operation returns only after the notification of done;
\* and a run that ends without cancellation has notified each exactly once.
C10_ReadyDoneOnce ==
  /\ nReady <= 1 /\ nDone <= 1
  /\ \A h \in Hosts :
       (pc[h] \in {"on_start", "work", "body", "return"} \/ (InWait(h) /\ cond[h] # "ready"))
         => nReady = 1
  /\ (lpc = "after_loop" /\ ~cancelled) => active \subseteq waiters["done"]
  /\ \A h \in Hosts :
       (pc[h] = "return" \/ result[h].t \in {"None", "bool"}) => nDone = 1
  /\ (lpc = "returned" /\ ~cancelled) => (nReady = 1 /\ nDone = 1)

\* C10 witness: a run without cancellation or failure has ended with every
\* operation returned, after one notification of ready and one of done.
C10_Witness ==
  /\ lpc = "returned" /\ ~cancelled
  /\ nReady = 1 /\ nDone = 1
  /\ \A h \in Hosts : result[h].t \in {"None", "bool"}

(***************************************************************************)
(* Task: the scope of one declared step (config.py, class Task)            *)
(***************************************************************************)

\* Cap on a Task's change counter.
MaxTaskChanges == 2

\* The log lines a Task can emit, by their tag.
LineTags == {"begin", "error", "ok", "change"}

\* config.task(msg, silent=..., begin=...): a fresh Task with changes = 0.
TaskNew ==
  /\ task.st \in {"none", "closed"}
  /\ ntask < NTasks
  /\ \E silent \in BOOLEAN, begin \in BOOLEAN :
       task' = [st |-> "new", silent |-> silent, begin |-> begin, changes |-> 0,
                raised |-> FALSE]
  /\ ntask' = ntask + 1
  /\ UNCHANGED <<config_changes, lines>>
  /\ UNCHANGED taskOthers

\* Task.__enter__: config.sync() returns at once without a coordinator; a
\* '( begin)' line when begin is set and the Task is not silent.
TaskEnter ==
  /\ task.st = "new"
  /\ task' = [task EXCEPT !.st = "open"]
  /\ lines' = IF task.begin /\ ~task.silent THEN Append(lines, "begin") ELSE lines
  /\ UNCHANGED <<config_changes, ntask>>
  /\ UNCHANGED taskOthers

\* Task.change(count), also written +task (count = 1) and task + count.
TaskChange ==
  /\ task.st = "open"
  /\ \E count \in 1..MaxTaskChanges :
       /\ task.changes + count <= MaxTaskChanges
       /\ task' = [task EXCEPT !.changes = @ + count]
  /\ UNCHANGED <<config_changes, lines, ntask>>
  /\ UNCHANGED taskOthers

\* An exit that adds nothing to config.changes.
exit_total_dropped(t) == config_changes

\* Task.__exit__: self.config.changes += self.changes.
exit_total(t) == config_changes + t.changes

\* Task.__exit__: the terminal line of a Task that left by exception (raised)
\* or normally, as a sequence of zero or one line.
exit_line(t, raised) ==
  IF t.silent THEN <<>>
  ELSE IF raised THEN <<"error">>
  ELSE IF t.changes = 0 THEN <<"ok">>
  ELSE <<"change">>

\* Task.__exit__(*exc_info), reached when the body of the with statement
\* returns or raises.
TaskExit ==
  /\ task.st = "open"
  /\ \E raised \in BOOLEAN :
       /\ task' = [task EXCEPT !.st = "closed", !.raised = raised]
       /\ config_changes' = exit_total(task)
       /\ lines' = lines \o exit_line(task, raised)
  /\ UNCHANGED ntask
  /\ UNCHANGED taskOthers

TaskInit == DeployParked /\ OthersStart

TaskNext ==
  \/ TaskNew
  \/ TaskEnter
  \/ TaskChange
  \/ TaskExit

TaskSpec == TaskInit /\ [][TaskNext]_vars

\* A step in which the open Task's scope is left.
TaskExits == task.st = "open" /\ task'.st = "closed"

\* C11: every exit of a Task scope, normal or by exception, adds the Task's
\* counter to config.changes, and no other step changes config.changes (added
\* exactly once); a Task that is not silent then emits exactly one line,
\* '( error)' after an exception, else '(    ok)' for a counter of 0 and
\* '(change)' for a counter of at least 1; a silent Task emits no line.
C11_TaskExitAccounting ==
  [][/\ TaskExits =>
          /\ config_changes' = config_changes + task.changes
          /\ IF task.silent
               THEN lines' = lines
               ELSE /\ Len(lines') = Len(lines) + 1
                    /\ SubSeq(lines', 1, Len(lines)) = lines
                    /\ lines'[Len(lines')] =
                         IF task'.raised THEN "error"
                         ELSE IF task.changes = 0 THEN "ok" ELSE "change"
     /\ ~TaskExits =>
          /\ config_changes' = config_changes
          /\ lines' # lines => lines' = Append(lines, "begin")
    ]_vars

\* The second Task left by exception with two changes counted, after a first
\* Task that counted one and left normally.
C11_Witness ==
  /\ ntask = 2
  /\ task.st = "closed" /\ task.raised /\ ~task.silent /\ task.changes = 2
  /\ config_changes = 3
  /\ Len(lines) >= 2
  /\ lines[Len(lines)] = "error"
  /\ lines[Len(lines) - 1] = "change"

(***************************************************************************)
(* Lifecycle: BaseConfiguration._run_method of one configuration.  The      *)
(* coordinator is seen from the replica: a wait returns or raises.          *)
(***************************************************************************)

\* Cap on the length of config_include.
MaxIncludes == 2

\* The hooks apply(), delete() and is_applied() hand to _run_method.
hooks(m) ==
  CASE m = "apply" ->
         [work |-> "on_apply", start |-> "on_apply_start", finish |-> "on_apply_finish",
          error |-> "on_apply_error", cancel |-> "on_apply_cancel"]
    [] m = "delete" ->
         [work |-> "on_delete", start |-> "on_delete_start", finish |-> "on_delete_finish",
          error |-> "on_delete_error", cancel |-> "on_delete_cancel"]
    [] m = "is_applied" ->
         [work |-> "on_is_applied", start |-> "on_is_applied_start",
          finish |-> "on_is_applied_finish", error |-> "on_is_applied_error",
          cancel |-> "on_is_applied_cancel"]

\* config.apply(system) / delete / is_applied: _run_method binds the system
\* and enters the try block.
Call ==
  /\ run_pc = "idle"
  /\ \E m \in Methods, n \in 0..MaxIncludes :
       /\ run_method' = m
       /\ includes' = n
  /\ run_pc' = "ready"
  /\ UNCHANGED <<events, run_exc>>
  /\ UNCHANGED runOthers

\* What a _wait can do to its caller: return, raise Cancel, or (with a
\* timeout, which only the ready wait has) raise TimeoutError.
wait_outcomes(c) ==
  IF has_timeout(c) THEN {"none", "Cancel", "TimeoutError"} ELSE {"none", "Cancel"}

\* The step at run_pc raised e: control passes to the except clause.
Raise(e) ==
  /\ run_exc' = e
  /\ run_pc' = "except"

\* self._ready(): _wait('ready', timeout=config_ready_timeout).
Ready ==
  /\ run_pc = "ready"
  /\ events' = Append(events, "ready_wait")
  /\ \E e \in wait_outcomes("ready") :
       IF e = "none"
         THEN /\ run_pc' = IF includes > 0 THEN "include" ELSE "on_start"
              /\ run_exc' = run_exc
         ELSE Raise(e)
  /\ UNCHANGED <<run_method, includes>>
  /\ UNCHANGED runOthers

\* Number of "include" events so far.
included == Cardinality({i \in DOMAIN events : events[i] = "include"})

\* _run_includes: one included configuration runs the same operation with
\* this configuration as parent; it returns, or raises the Cancel or Fail of
\* its own _run_method.
Include ==
  /\ run_pc = "include"
  /\ events' = Append(events, "include")
  /\ \E e \in {"none", "Cancel", "Fail"} :
       IF e = "none"
         THEN /\ run_pc' = IF included + 1 < includes THEN "include" ELSE "on_start"
              /\ run_exc' = run_exc
         ELSE Raise(e)
  /\ UNCHANGED <<run_method, includes>>
  /\ UNCHANGED runOthers

\* on_start(): the library's hooks are `pass`.
OnStart ==
  /\ run_pc = "on_start"
  /\ events' = Append(events, hooks(run_method).start)
  /\ run_pc' = "on_work"
  /\ UNCHANGED <<run_method, includes, run_exc>>
  /\ UNCHANGED runOthers

\* res = on_work(): the declared steps.  A step raises an error of its own,
\* or the sync of a Task raises Cancel.
OnWork ==
  /\ run_pc = "on_work"
  /\ events' = Append(events, hooks(run_method).work)
  /\ \E e \in {"none", "Cancel", "Error"} :
       IF e = "none"
         THEN run_pc' = "on_finish" /\ run_exc' = run_exc
         ELSE Raise(e)
  /\ UNCHANGED <<run_method, includes>>
  /\ UNCHANGED runOthers

\* on_finish().
OnFinish ==
  /\ run_pc = "on_finish"
  /\ events' = Append(events, hooks(run_method).finish)
  /\ run_pc' = "done"
  /\ UNCHANGED <<run_method, includes, run_exc>>
  /\ UNCHANGED runOthers

\* self._done(): _wait('done', timeout=config_done_timeout), then return.
Done ==
  /\ run_pc = "done"
  /\ events' = Append(events, "done_wait")
  /\ \E e \in wait_outcomes("done") :
       IF e = "none"
         THEN run_pc' = "returned" /\ run_exc' = run_exc
         ELSE Raise(e)
  /\ UNCHANGED <<run_method, includes>>
  /\ UNCHANGED runOthers

\* An except clause that calls on_error for every exception.
handler_hook_error(m, e) == hooks(m).error

\* The except clause: on_cancel() for Cancel, on_error() for Fail and for
\* every other Exception.
handler_hook(m, e) == IF e = "Cancel" THEN hooks(m).cancel ELSE hooks(m).error

\* What leaves the except clause: Cancel and Fail are re-raised, any other
\* exception is wrapped in Fail.
handler_raises(e) == IF e \in {"Cancel", "Fail"} THEN e ELSE "Fail"

\* except Exception as exc: ... raise; finally: self.reset().
Except ==
  /\ run_pc = "except"
  /\ events' = Append(events, handler_hook(run_method, run_exc))
  /\ run_exc' = handler_raises(run_exc)
  /\ run_pc' = "raised"
  /\ UNCHANGED <<run_method, includes>>
  /\ UNCHANGED runOthers

LifecycleInit == DeployParked /\ OthersStart

LifecycleNext ==
  \/ Call
  \/ Ready
  \/ Include
  \/ OnStart
  \/ OnWork
  \/ OnFinish
  \/ Done
  \/ Except

LifecycleSpec == LifecycleInit /\ [][LifecycleNext]_vars

\* C12: in every run of apply, delete or is_applied the events occur in the
\* order ready-wait, included sub-configurations, on_<op>_start, on_<op>,
\* on_<op>_finish, done-wait; a run that returns fired neither on_<op>_error
\* nor on_<op>_cancel, and a run that ended by exception fired exactly one of
\* them, last, on_<op>_cancel exactly when the exception is Cancel.
C12_LifecycleOrder ==
  LET op == run_method
      named ==
        CASE op = "apply" -> <<"on_apply_start", "on_apply", "on_apply_finish">>
          [] op = "delete" -> <<"on_delete_start", "on_delete", "on_delete_finish">>
          [] op = "is_applied" ->
               <<"on_is_applied_start", "on_is_applied", "on_is_applied_finish">>
      on_error == CASE op = "apply" -> "on_apply_error"
                    [] op = "delete" -> "on_delete_error"
                    [] op = "is_applied" -> "on_is_applied_error"
      on_cancel == CASE op = "apply" -> "on_apply_cancel"
                     [] op = "delete" -> "on_delete_cancel"
                     [] op = "is_applied" -> "on_is_applied_cancel"
      order == <<"ready_wait">> \o [i \in 1..includes |-> "include"] \o named
                 \o <<"done_wait">>
      IsPrefix(a, b) == Len(a) <= Len(b) /\ SubSeq(b, 1, Len(a)) = a
  IN  /\ run_pc # "raised" => IsPrefix(events, order)
      /\ run_pc = "returned" => events = order
      /\ run_pc = "raised" =>
           /\ Len(events) >= 2
           /\ IsPrefix(SubSeq(events, 1, Len(events) - 1), order)
           /\ events[Len(events)] = IF run_exc = "Cancel" THEN on_cancel ELSE on_error

\* A delete with two included configurations went through every phase and was
\* cancelled in its done wait.
C12_Witness ==
  /\ run_pc = "raised"
  /\ run_method = "delete"
  /\ includes = 2
  /\ run_exc = "Cancel"
  /\ Len(events) = 8
  /\ events[7] = "done_wait"
  /\ events[8] = "on_delete_cancel"

(***************************************************************************)
(* Configuration: the declared steps of apply, delete and is_applied       *)
(* against one host (config.py, class Configuration)                       *)
(***************************************************************************)

\* Cap on the number of operations called on the configuration.
MaxOps == 3

\* The config_* lists by name.
ListNames == {"os_package_urls", "os_packages", "python_packages", "directories",
              "files", "assets", "template_files", "template_assets", "symlinks"}

\* What each list holds when the Configuration declares it: package names,
\* and for the (src, dst) lists the destination paths.  "/a/b" lies in "/a".
Content(name) ==
  CASE name = "os_package_urls" -> <<"pu">>
    [] name = "os_packages" -> <<"p1", "p2">>
    [] name = "python_packages" -> <<"q1", "q2">>
    [] name = "directories" -> <<"/a", "/a/b">>
    [] name = "files" -> <<"/f">>
    [] name = "assets" -> <<"/g">>
    [] name = "template_files" -> <<"/t">>
    [] name = "template_assets" -> <<"/u">>
    [] name = "symlinks" -> <<"/l">>

\* get_<list>(): `self.config_<list> or []`.
get(name) == IF name \in declared THEN Content(name) ELSE <<>>

\* get_all_os_packages(): the packages of the urls, then the os packages.
get_all_os_packages == get("os_package_urls") \o get("os_packages")

\* get_all_files(): files, assets, template files, template assets, symlinks.
get_all_files ==
  get("files") \o get("assets") \o get("template_files") \o get("template_assets")
    \o get("symlinks")

\* The paths of the host and the directory each lies in ("/" for the top).
Paths == {"/a", "/a/b", "/a/b/x", "/f", "/g", "/t", "/u", "/l"}
Parent(p) ==
  CASE p = "/a/b" -> "/a"
    [] p = "/a/b/x" -> "/a/b"
    [] OTHER -> "/"

\* The directories a path lies in, nearest first, without "/".
RECURSIVE Ancestors(_)
Ancestors(p) == IF Parent(p) = "/" THEN {} ELSE {Parent(p)} \cup Ancestors(Parent(p))

\* Everything the host has at a path.
Present(h) == h.dirs \cup h.files \cup h.links

\* System.ls(dir): the entries of the directory.
ls(h, dir) == {p \in Present(h) : Parent(p) = dir}

\* System.mkdirp(dir): mkdir -p creates the directory and its parents.
mkdirp(h, dir) == [h EXCEPT !.dirs = @ \cup {dir} \cup Ancestors(dir)]

\* System.rmrf(dir): rm -rf removes the directory and everything in it.
rmrf(h, dir) ==
  LET gone == {dir} \cup {p \in Paths : dir \in Ancestors(p)}
  IN  [h EXCEPT !.dirs = @ \ gone, !.files = @ \ gone, !.links = @ \ gone]

\* System.rmf(path): rm -f removes the file or the symlink.
rmf(h, path) == [h EXCEPT !.files = @ \ {path}, !.links = @ \ {path}]

\* The state of a Task's body: the host, the Task's counter, the host changes
\* made so far and the exception that ended the body, if any.
Body0(h) == [host |-> h, n |-> 0, ops |-> <<>>, exc |-> "none"]

\* item returned without touching the host.
Skip(h) == Body0(h)

\* item changed the host by one operation and counted it (+task).
Did(h, verb, x) == [host |-> h, n |-> 1, ops |-> << <<verb, x>> >>, exc |-> "none"]

\* item raised.
Threw(h, e) == [host |-> h, n |-> 0, ops |-> <<>>, exc |-> e]

\* delete_directory: `self.config_keep_nonempty_dirs and len(sys.ls(dir)) > 0`.
keeps_directory(h, dir) == keep.dirs /\ ls(h, dir) # {}

\* What the loop of a step does with one item x on host h, by the name of the
\* method the loop calls.
Item(call, h, x) ==
  CASE call = "apply_os_packages" -> Threw(h, "TypeError")
    [] call = "apply_os_package" ->
         IF x \in h.os THEN Skip(h)
         ELSE Did([h EXCEPT !.os = @ \cup {x}], "install", x)
    [] call = "apply_python_package" ->
         IF x \in h.pip THEN Skip(h)
         ELSE Did([h EXCEPT !.pip = @ \cup {x}], "pip_install", x)
    [] call = "apply_directory" ->
         IF x \in h.dirs THEN Skip(h) ELSE Did(mkdirp(h, x), "mkdirp", x)
    [] call = "appy_file" -> Threw(h, "AttributeError")
    [] call \in {"apply_asset", "apply_template_file", "apply_template_asset"} ->
         IF x \in h.files THEN Skip(h)
         ELSE Did([h EXCEPT !.files = @ \cup {x}], "put", x)
    [] call = "apply_symlink" ->
         IF x \in h.links THEN Skip(h)
         ELSE Did([h EXCEPT !.links = @ \cup {x}], "lns", x)
    [] call = "delete_os_package" ->
         IF x \notin h.os THEN Skip(h)
         ELSE Did([h EXCEPT !.os = @ \ {x}], "remove", x)
    [] call = "delete_python_package" ->
         IF x \notin h.pip THEN Skip(h)
         ELSE Did([h EXCEPT !.pip = @ \ {x}], "pip_remove", x)
    [] call = "delete_file" ->
         IF x \notin h.files \cup h.links THEN Skip(h) ELSE Did(rmf(h, x), "rmf", x)
    [] call = "delete_directory" ->
         IF x \notin h.dirs THEN Skip(h)
         ELSE IF keeps_directory(h, x) THEN Skip(h)
         ELSE Did(rmrf(h, x), "rmrf", x)

\* `for x in list: self.<call>(task, x)`, stopped by the first exception.
RECURSIVE Loop(_, _, _)
Loop(call, st, list) ==
  IF list = <<>> \/ st.exc # "none" THEN st
  ELSE LET r == Item(call, st.host, Head(list))
       IN  Loop(call,
                [host |-> r.host, n |-> st.n + r.n, ops |-> st.ops \o r.ops, exc |-> r.exc],
                Tail(list))

\* reversed(list).
reversed(list) == [i \in 1..Len(list) |-> list[Len(list) + 1 - i]]

\* The elements of a sequence.
Range(list) == {list[i] : i \in DOMAIN list}

\* The body of each step's Task, by the name of the step.
Step(name, h) ==
  CASE name = "apply_os_package_list_update" ->
         IF get_all_os_packages = <<>> THEN Skip(h)
         ELSE IF Range(get_all_os_packages) \subseteq h.os THEN Skip(h)
         ELSE Did(h, "refresh", "os")
    [] name = "apply_os_package_urls" ->
         Loop("apply_os_packages", Body0(h), get("os_package_urls"))
    [] name = "apply_os_packages" ->
         Loop("apply_os_package", Body0(h), get("os_packages"))
    [] name = "apply_python_packages" ->
         Loop("apply_python_package", Body0(h), get("python_packages"))
    [] name = "apply_directories" ->
         Loop("apply_directory", Body0(h), get("directories"))
    [] name = "apply_files" -> Loop("appy_file", Body0(h), get("files"))
    [] name = "apply_assets" -> Loop("apply_asset", Body0(h), get("assets"))
    [] name = "apply_template_files" ->
         Loop("apply_template_file", Body0(h), get("template_files"))
    [] name = "apply_template_assets" ->
         Loop("apply_template_asset", Body0(h), get("template_assets"))
    [] name = "apply_symlinks" -> Loop("apply_symlink", Body0(h), get("symlinks"))
    [] name = "delete_python_packages" ->
         IF keep.pip THEN Skip(h)
         ELSE Loop("delete_python_package", Body0(h), get("python_packages"))
    [] name = "delete_os_packages" ->
         IF keep.os THEN Skip(h)
         ELSE Loop("delete_os_package", Body0(h), reversed(get_all_os_packages))
    [] name = "delete_files" -> Loop("delete_file", Body0(h), get_all_files)
    [] name = "delete_directories" ->
         Loop("delete_directory", Body0(h), get("directories"))

\* An on_apply that creates the symlinks before the directories.
on_apply_links_first ==
  <<"apply_os_package_list_update", "apply_os_package_urls", "apply_os_packages",
    "apply_python_packages", "apply_symlinks", "apply_files", "apply_assets",
    "apply_template_files", "apply_template_assets", "apply_directories">>

\* Configuration.on_apply: the steps in the order it calls them.
on_apply ==
  <<"apply_os_package_list_update", "apply_os_package_urls", "apply_os_packages",
    "apply_python_packages", "apply_directories", "apply_files", "apply_assets",
    "apply_template_files", "apply_template_assets", "apply_symlinks">>

\* Configuration.on_delete: the steps in the order it calls them.
on_delete ==
  <<"delete_python_packages", "delete_os_packages", "delete_files",
    "delete_directories">>

\* Configuration.on_is_applied.
on_is_applied(h) ==
  /\ \A x \in Range(get("os_package_urls")) : x \in h.os
  /\ \A x \in Range(get("os_packages")) : x \in h.os
  /\ \A x \in Range(get("python_packages")) : x \in h.pip
  /\ \A x \in Range(get_all_files) : x \in Present(h)

on_work(op) == IF op = "apply" THEN on_apply ELSE on_delete

\* What _run_method hands back: the value it returns, or the Fail it raises.
Returned(op, n, res) ==
  [op |-> op, t |-> "value", changes |-> n, applied |-> res, cause |-> "none"]
Failed(op, n, e) ==
  [op |-> op, t |-> "Fail", changes |-> n, applied |-> FALSE, cause |-> e]

\* config.apply(system) / delete / is_applied: _run_method binds the system;
\* without a coordinator _ready() returns at once, and there are no includes.
ConfCall ==
  /\ cf_op = "none"
  /\ Len(returns) < MaxOps
  /\ \E op \in Methods : cf_op' = op
  /\ cf_step' = 1
  /\ cf_changes' = 0
  /\ trace' = <<>>
  /\ host0' = host
  /\ UNCHANGED <<declared, keep, host, returns>>
  /\ UNCHANGED confOthers

\* One step of on_apply or on_delete: its Task is entered, the body runs and
\* Task.__exit__ adds the counter to config.changes.  An exception leaves
\* on_<op>; _run_method wraps it in Fail(self, exc_info) and resets.
ConfStep ==
  /\ cf_op \in {"apply", "delete"}
  /\ cf_step <= Len(on_work(cf_op))
  /\ LET name == on_work(cf_op)[cf_step]
         r == Step(name, host)
     IN  /\ host' = r.host
         /\ trace' = trace \o << <<"enter", name>> >> \o r.ops \o << <<"exit", name>> >>
         /\ IF r.exc = "none"
              THEN /\ cf_changes' = cf_changes + r.n
                   /\ cf_step' = cf_step + 1
                   /\ UNCHANGED <<cf_op, returns>>
              ELSE /\ returns' = Append(returns, Failed(cf_op, cf_changes + r.n, r.exc))
                   /\ cf_op' = "none"
                   /\ cf_step' = 0
                   /\ cf_changes' = 0
  /\ UNCHANGED <<declared, keep, host0>>
  /\ UNCHANGED confOthers

\* on_<op> returns super().on_<op>() = self.changes; on_finish and _done do
\* nothing here; _run_method returns self.changes and resets.
ConfReturn ==
  /\ cf_op \in {"apply", "delete"}
  /\ cf_step = Len(on_work(cf_op)) + 1
  /\ returns' = Append(returns, Returned(cf_op, cf_changes, FALSE))
  /\ cf_op' = "none"
  /\ cf_step' = 0
  /\ cf_changes' = 0
  /\ UNCHANGED <<declared, keep, host, host0, trace>>
  /\ UNCHANGED confOthers

\* is_applied: res = on_is_applied(); self.applied = all([] + [res]);
\* _run_method returns self.applied.
ConfIsApplied ==
  /\ cf_op = "is_applied"
  /\ returns' = Append(returns, Returned(cf_op, 0, on_is_applied(host)))
  /\ cf_op' = "none"
  /\ cf_step' = 0
  /\ UNCHANGED <<declared, keep, host, host0, cf_changes, trace>>
  /\ UNCHANGED confOthers

\* The Configurations under test, by the lists they declare.
Configurations ==
  {{},
   {"python_packages"},
   {"directories"},
   {"os_packages", "python_packages", "directories", "symlinks"},
   {"os_packages", "python_packages", "directories", "files", "symlinks"},
   {"os_package_urls", "os_packages"},
   {"directories", "assets", "template_files", "template_assets", "symlinks"}}

\* A host on which somebody keeps a file of their own under /a/b.
UsedHost == [os |-> {}, pip |-> {}, dirs |-> {"/a", "/a/b"}, files |-> {"/a/b/x"},
             links |-> {}]

ConfInit ==
  /\ DeployParked
  /\ LogStart
  /\ TreeStart
  /\ PoolStart
  /\ ScopeStart
  /\ SysStart
  /\ TeeStart
  /\ SudoStart
  /\ ScrubStart
  /\ TaskStart
  /\ RunStartState
  /\ ContextStart
  /\ declared \in Configurations
  /\ keep \in [os : BOOLEAN, pip : BOOLEAN, dirs : BOOLEAN]
  /\ host \in {FreshHost, UsedHost}
  /\ ConfIdle

ConfNext ==
  \/ ConfCall
  \/ ConfStep
  \/ ConfReturn
  \/ ConfIsApplied

ConfSpec == ConfInit /\ [][ConfNext]_vars

\* The operation the trace belongs to: the one in progress, else the last one.
TraceOp ==
  IF cf_op # "none" THEN cf_op
  ELSE IF returns = <<>> THEN "none"
  ELSE returns[Len(returns)].op

\* C13: on a host that has nothing of a non-empty Configuration, the first
\* apply returns changes > 0; an apply that directly follows an apply returns
\* changes = 0; an is_applied that directly follows an apply returns true.
C13_ApplyIdempotent ==
  /\ (/\ cf_op = "none"
      /\ Len(returns) = 1
      /\ returns[1].op = "apply"
      /\ declared # {}
      /\ "/a/b/x" \notin host.files)
       => (returns[1].t = "value" /\ returns[1].changes > 0)
  /\ \A i \in 1..(Len(returns) - 1) :
       returns[i].op = "apply" =>
         /\ returns[i + 1].op = "apply" =>
              (returns[i + 1].t = "value" /\ returns[i + 1].changes = 0)
         /\ returns[i + 1].op = "is_applied" =>
              (returns[i + 1].t = "value" /\ returns[i + 1].applied)

\* C14: in a delete, the removals of OS packages, of language packages, of
\* files and symlinks and of directories each happen in the reverse of the
\* declaration order: of two removals of the same kind, the one made first is
\* of the item declared later.
C14_DeleteReverseOrder ==
  LET Pos(list, x) == CHOOSE i \in DOMAIN list : list[i] = x
      decl(verb) ==
        CASE verb = "remove" -> get_all_os_packages
          [] verb = "pip_remove" -> get("python_packages")
          [] verb = "rmf" -> get_all_files
          [] verb = "rmrf" -> get("directories")
  IN  TraceOp = "delete" =>
        \A i, j \in DOMAIN trace :
          (/\ i < j
           /\ trace[i][1] \in {"remove", "pip_remove", "rmf", "rmrf"}
           /\ trace[j][1] = trace[i][1])
            => Pos(decl(trace[i][1]), trace[i][2]) > Pos(decl(trace[i][1]), trace[j][2])

\* C15: in an apply the Tasks are entered in the order package-list refresh,
\* OS-package URLs, OS packages, language packages, directories, files,
\* assets, template files, template assets, symlinks; every host change lies
\* between the entry and the exit of its step's Task, a Task is entered only
\* after the previous one has exited, and within a step the items are handled
\* in declaration order.
C15_ApplyStepOrder ==
  LET order == <<"apply_os_package_list_update", "apply_os_package_urls",
                 "apply_os_packages", "apply_python_packages", "apply_directories",
                 "apply_files", "apply_assets", "apply_template_files",
                 "apply_template_assets", "apply_symlinks">>
      entered == SelectSeq(trace, LAMBDA e : e[1] = "enter")
      Pos(list, x) == CHOOSE i \in DOMAIN list : list[i] = x
      decl(verb) ==
        CASE verb = "install" -> get("os_packages")
          [] verb = "pip_install" -> get("python_packages")
          [] verb = "mkdirp" -> get("directories")
          [] verb = "put" -> get_all_files
          [] verb = "lns" -> get("symlinks")
          [] verb = "refresh" -> <<"os">>
      \* the entry of the Task that position i of the trace lies in
      Open(i) == CHOOSE e \in 1..i :
                   /\ trace[e][1] = "enter"
                   /\ \A m \in (e + 1)..i : trace[m][1] # "enter"
      step_of(verb) ==
        CASE verb = "install" -> {"apply_os_packages"}
          [] verb = "pip_install" -> {"apply_python_packages"}
          [] verb = "mkdirp" -> {"apply_directories"}
          [] verb = "put" -> {"apply_files", "apply_assets", "apply_template_files",
                              "apply_template_assets"}
          [] verb = "lns" -> {"apply_symlinks"}
          [] verb = "refresh" -> {"apply_os_package_list_update"}
  IN  TraceOp = "apply" =>
        /\ \A i \in DOMAIN entered : entered[i][2] = order[i]
        /\ trace # <<>> => trace[1][1] = "enter"
        /\ \A i \in DOMAIN trace :
             /\ trace[i][1] = "enter" =>
                  (i = 1 \/ trace[i - 1][1] = "exit")
             /\ trace[i][1] = "exit" => trace[i][2] = trace[Open(i)][2]
             /\ trace[i][1] \notin {"enter", "exit"} =>
                  /\ trace[Open(i)][2] \in step_of(trace[i][1])
                  /\ \A m \in Open(i)..i : trace[m][1] # "exit"
        /\ \A i, j \in DOMAIN trace :
             (i < j /\ trace[i][1] \notin {"enter", "exit"} /\ trace[j][1] = trace[i][1])
               => Pos(decl(trace[i][1]), trace[i][2]) < Pos(decl(trace[i][1]), trace[j][2])

\* An apply of directories, assets, template files, template assets and
\* symlinks on a fresh host ran every step and made its six changes.
C15_Witness ==
  /\ declared = {"directories", "assets", "template_files", "template_assets", "symlinks"}
  /\ cf_op = "none"
  /\ Len(returns) = 1
  /\ returns[1] = Returned("apply", 6, FALSE)
  /\ Len(trace) = 26
  /\ trace[9] = <<"enter", "apply_directories">>
  /\ trace[10] = <<"mkdirp", "/a">>
  /\ trace[11] = <<"mkdirp", "/a/b">>
  /\ trace[25] = <<"lns", "/l">>

\* C16: a delete that returns removed no OS package when keep_os_packages is
\* set, no language package when keep_python_packages is set and, when
\* keep_nonempty_dirs is set, no declared directory that had entries; and the
\* change count it returns is the number of declared items it removed.
C16_DeleteKeepPolicies ==
  LET last == returns[Len(returns)]
      items == Range(get_all_os_packages) \cup Range(get("python_packages"))
                 \cup Range(get_all_files) \cup Range(get("directories"))
      before == host0.os \cup host0.pip \cup Present(host0)
      after == host.os \cup host.pip \cup Present(host)
  IN  (cf_op = "none" /\ returns # <<>> /\ last.op = "delete" /\ last.t = "value") =>
        /\ keep.os => host0.os \subseteq host.os
        /\ keep.pip => host0.pip \subseteq host.pip
        /\ keep.dirs =>
             \A d \in Range(get("directories")) :
               (d \in host0.dirs /\ d \notin host.dirs) => ls(host0, d) = {}
        /\ last.changes = Cardinality((before \ after) \cap items)

(***************************************************************************)
(* Run context: the guards of lura.run.context and run() of lura.run.run,  *)
(* in one thread                                                           *)
(***************************************************************************)

\* Cap on the number of guards entered at once.
MaxDepth == 2

\* run.is_non_str_sequence(obj).
is_non_str_sequence(v) == v.k \in {"list", "tuple"}

\* `value in (None, [])`: equal to None or to the empty list.
is_none_or_empty_list(v) == v.k = "none" \/ (v.k = "list" /\ v.items = <<>>)

\* context.get(name): None for a missing key.
ctx_get(c, name) == IF c[name].k = "absent" THEN PyNone ELSE c[name]

\* Context.previous of a guard that has set nothing.
NoPrevious == [name \in Options |-> Absent]

\* The state of a guard's __enter__ or __exit__ as it runs: the context dict,
\* the guard's previous dict with its keys in insertion order, and the
\* exception that ended it, if any.
Going(c, prev, order) == [ctx |-> c, prev |-> prev, order |-> order, exc |-> "none"]
Broke(st, e) == [st EXCEPT !.exc = e]

\* Context.set(name, value, merge).
set(st, name, value, merge) ==
  IF is_non_str_sequence(value) /\ merge
    THEN LET cur == IF st.ctx[name].k = "absent" THEN PyList(<<>>) ELSE st.ctx[name]
             saved == [st EXCEPT !.ctx[name] = cur,
                                 !.prev[name] = PyList(cur.items),
                                 !.order = Append(@, name)]
         IN  IF ~is_non_str_sequence(cur) THEN Broke(st, "TypeError")
             ELSE IF cur.k = "tuple" THEN Broke(saved, "AttributeError")
             ELSE [saved EXCEPT !.ctx[name] = PyList(cur.items \o value.items)]
    ELSE [st EXCEPT !.prev[name] = ctx_get(st.ctx, name),
                    !.ctx[name] = value,
                    !.order = Append(@, name)]

\* Context.unset(name).  `del self.context[name]` of a key that is not there
\* raises KeyError when strict, and does nothing otherwise.
unset(st, name, strict) ==
  LET value == st.prev[name]
      cur == st.ctx[name]
      done == [st EXCEPT !.prev[name] = Absent,
                         !.order = SelectSeq(@, LAMBDA x : x # name)]
  IN  IF is_none_or_empty_list(value)
        THEN IF cur.k = "absent"
               THEN IF strict THEN Broke(st, "KeyError") ELSE done
               ELSE [done EXCEPT !.ctx[name] = Absent]
      ELSE IF is_non_str_sequence(value)
        THEN IF cur.k = "absent" THEN Broke(st, "KeyError")
             ELSE IF cur.k # "list" THEN Broke(st, "AttributeError")
             ELSE [done EXCEPT !.ctx[name] = PyList(value.items)]
      ELSE [done EXCEPT !.ctx[name] = value]

\* Context.autoset(): set every (name, merge) of autosetvars from the guard's
\* attributes, up to the first exception.
RECURSIVE autoset(_, _, _)
autoset(st, vars_, attrs) ==
  IF vars_ = <<>> \/ st.exc # "none" THEN st
  ELSE autoset(set(st, Head(vars_)[1], attrs[Head(vars_)[1]], Head(vars_)[2] = "merge"),
               Tail(vars_), attrs)

\* Context.autounset(): unset every key of previous, up to the first exception.
RECURSIVE autounset(_, _)
autounset(st, strict) ==
  IF st.order = <<>> \/ st.exc # "none" THEN st
  ELSE autounset(unset(st, Head(st.order), strict), strict)

\* Context.push().
push(c) ==
  [c EXCEPT !["count"] = PyInt((IF @.k = "absent" THEN 0 ELSE @.n) + 1)]

\* Context.cleanup(): self.context.clear().
cleanup(c) == NoContext

\* Context.pop(): decrement; at 0 remove the counter and clean up.
pop(c) ==
  IF c["count"].n - 1 = 0
    THEN cleanup([c EXCEPT !["count"] = Absent])
    ELSE [c EXCEPT !["count"] = PyInt(@.n - 1)]

\* A guard object: its class, its autosetvars as (name, "merge" | "replace")
\* pairs and the attributes autoset() reads.
Guard(type, vars_, attrs) == [type |-> type, vars |-> vars_, attrs |-> attrs]
NoAttrs == [name \in Options |-> Absent]

Quash == Guard("Quash", << <<"enforce", "merge">> >>,
               [NoAttrs EXCEPT !["enforce"] = PyBool(FALSE)])

Enforce(enforce_code) ==
  Guard("Enforce", << <<"enforce_code", "merge">>, <<"enforce", "merge">> >>,
        [NoAttrs EXCEPT !["enforce_code"] = PyInt(enforce_code), !["enforce"] = PyBool(TRUE)])

Cwd(cwd) == Guard("Cwd", << <<"cwd", "merge">> >>, [NoAttrs EXCEPT !["cwd"] = PyObj(cwd)])

Shell == Guard("Shell", << <<"shell", "merge">> >>, [NoAttrs EXCEPT !["shell"] = PyBool(TRUE)])

Env(env) == Guard("Env", << <<"env", "merge">> >>, [NoAttrs EXCEPT !["env"] = PyObj(env)])

\* Python truth value.
is_true(v) ==
  CASE v.k \in {"absent", "none"} -> FALSE
    [] v.k = "bool" -> v.b
    [] v.k = "int" -> v.n # 0
    [] v.k = "obj" -> TRUE
    [] v.k \in {"list", "tuple"} -> v.items # <<>>

\* `x if isinstance(x, Sequence) else (x,)`.
as_sequence(v) == IF is_non_str_sequence(v) THEN v ELSE PyTuple(<<v.s>>)

\* Stdio(stdout, stderr=[], excl=False).
Stdio(stdout, stderr, excl) ==
  LET m == IF excl THEN "replace" ELSE "merge"
  IN  Guard(IF excl THEN "StdioExcl" ELSE "Stdio",
            << <<"stdout", m>> >> \o
              (IF is_true(stderr) \/ excl THEN << <<"stderr", m>> >> ELSE <<>>),
            [NoAttrs EXCEPT !["stdout"] = as_sequence(stdout),
                            !["stderr"] = as_sequence(stderr)])

\* Log(log, level, excl): a Stdio of two LogWriters.
Log(excl) ==
  [Stdio(PyObj("log_out"), PyObj("log_err"), excl) EXCEPT
     !.type = IF excl THEN "LogExcl" ELSE "Log"]

\* Sudo(password=None, user=None, group=None, login=None, timeout=None).
Sudo(password) ==
  Guard("Sudo",
        << <<"sudo_user", "merge">>, <<"sudo_password", "merge">>,
           <<"sudo_group", "merge">>, <<"sudo_login", "merge">>,
           <<"sudo_timeout", "merge">>, <<"mode", "merge">> >>,
        [NoAttrs EXCEPT !["sudo_user"] = PyNone, !["sudo_password"] = password,
                        !["sudo_group"] = PyNone, !["sudo_login"] = PyNone,
                        !["sudo_timeout"] = PyNone, !["mode"] = PyObj("sudo")])

New == Guard("New", <<>>, NoAttrs)

\* The guards a thread enters.
Guards ==
  {Quash, Enforce(7), Cwd("/srv"), Shell, Env("env"),
   Stdio(PyObj("a"), PyList(<<>>), FALSE),
   Stdio(PyObj("b"), PyList(<<>>), TRUE), Stdio(PyList(<<"b">>), PyList(<<>>), TRUE),
   Log(FALSE), Log(TRUE), Sudo(PyNone), New}

\* New.__enter__: the context without the counter, saved and then removed.
hidden(c) == [c EXCEPT !["count"] = Absent]
hide(c) == [name \in Keys |-> IF name = "count" THEN c[name] ELSE Absent]

\* New.__exit__: self.context.update(self.old).
update_context(c, old) ==
  [name \in Keys |-> IF old[name].k # "absent" THEN old[name] ELSE c[name]]

\* `with guard:` runs guard.__enter__(): push, autoset, and for New the
\* hiding of the context.  An exception in __enter__ leaves the with
\* statement without entering it: __exit__ will not run.
enter ==
  /\ raising = "none"
  /\ Len(stack) < MaxDepth
  /\ \E g \in Guards :
       LET st == autoset(Going(push(ctx), NoPrevious, <<>>), g.vars, g.attrs)
       IN  IF st.exc # "none"
             THEN /\ ctx' = st.ctx
                  /\ raising' = st.exc
                  /\ stack' = stack
             ELSE /\ ctx' = IF g.type = "New" THEN hide(st.ctx) ELSE st.ctx
                  /\ raising' = "none"
                  /\ stack' = Append(stack,
                       [type |-> g.type, prev |-> st.prev, order |-> st.order,
                        old |-> IF g.type = "New" THEN hidden(st.ctx) ELSE NoContext,
                        snap |-> ctx])
  /\ ran' = NoRan
  /\ UNCHANGED defaults

Enter == enter /\ UNCHANGED ctxOthers

\* The body of the innermost with statement raises, as when run() raises
\* run.error.
Throw ==
  /\ raising = "none"
  /\ stack # <<>>
  /\ raising' = "Error"
  /\ ran' = NoRan
  /\ UNCHANGED <<ctx, stack, defaults>>
  /\ UNCHANGED ctxOthers

\* The innermost with statement is left, normally or by the exception in
\* flight: guard.__exit__() runs autounset and pop (New first puts the hidden
\* context back).  An exception in __exit__ ends it there and propagates.
leave ==
  /\ stack # <<>>
  /\ \E strict \in BOOLEAN :
       LET top == stack[Len(stack)]
           c1 == IF top.type = "New" THEN update_context(ctx, top.old) ELSE ctx
           st == autounset(Going(c1, top.prev, top.order), strict)
       IN  IF st.exc # "none"
             THEN ctx' = st.ctx /\ raising' = st.exc
             ELSE ctx' = pop(st.ctx) /\ raising' = raising
  /\ stack' = SubSeq(stack, 1, Len(stack) - 1)
  /\ ran' = NoRan
  /\ UNCHANGED defaults

Leave == leave /\ UNCHANGED ctxOthers

\* The body's exception has left every with statement and the thread handles
\* it.  An exception of a guard's own code is handled by nobody: the thread
\* ends with it.
Catch ==
  /\ raising = "Error"
  /\ stack = <<>>
  /\ raising' = "none"
  /\ UNCHANGED <<ctx, stack, ran, defaults>>
  /\ UNCHANGED ctxOthers

\* A list value together with the object it is: a list built by the call
\* ("fresh"), the list held by run.defaults or the one held by the context.
Ref(v, id) == [v |-> v, id |-> id]

\* A lookup that hands out the list of run.defaults itself.
list_alias(v, owner) == Ref(v, owner)

\* list(default_value) and `value = []; value.extend(...)`: a new list.
list_copy(v, owner) == Ref(PyList(v.items), "fresh")

\* lookup(name).
lookup(name) ==
  LET default_value == defaults[name]
      context_value == ctx_get(ctx, name)
  IN  IF is_non_str_sequence(default_value)
        THEN IF is_true(context_value)
               THEN Ref(PyList(default_value.items \o context_value.items), "fresh")
               ELSE list_copy(default_value, "defaults")
      ELSE IF context_value.k # "none" THEN Ref(context_value, "context")
      ELSE Ref(default_value, "defaults")

\* merge_args(user_args): the effective value of every option.
merge_args(user_args) ==
  [name \in Options |->
     IF name \notin {"stdout", "stderr"}
       THEN IF user_args[name].k = "none" THEN lookup(name) ELSE Ref(user_args[name], "user")
       ELSE IF is_true(user_args[name])
              THEN Ref(PyList(as_sequence(user_args[name]).items \o lookup(name).v.items),
                       "fresh")
              ELSE lookup(name)]

\* An enforcement that takes every non-zero exit for a failure.
enforced_nonzero(args, code) == args["enforce"].v = PyBool(TRUE) /\ code # 0

\* `kwargs.enforce is True and result.code != kwargs.enforce_code`.
enforced(args, code) ==
  args["enforce"].v = PyBool(TRUE) /\ PyInt(code) # args["enforce_code"].v

\* The exit codes of the child process.
ExitCodes == {0, 1, 7}

\* The explicit arguments of a call of run().
UserArgs ==
  {[NoArgs EXCEPT !["enforce"] = e, !["enforce_code"] = c] :
     e \in {PyNone, PyBool(TRUE), PyBool(FALSE)}, c \in {PyNone, PyInt(7)}}
  \cup {[NoArgs EXCEPT !["stdout"] = PyObj("c"), !["enforce"] = PyBool(FALSE)],
        [NoArgs EXCEPT !["cwd"] = PyObj("/home"), !["mode"] = PyObj("pty")],
        [NoArgs EXCEPT !["mode"] = PyObj("fork"), !["stderr"] = PyList(<<"d">>)]}

\* `args.enforce and code != args.enforce_code` of Run.__call__ in lura/run.py.
call_enforced(args, code) ==
  is_true(args["enforce"].v) /\ PyInt(code) # args["enforce_code"].v

\* The sink lists a mode's _run_<mode> appends its capture buffers to:
\* _run_stdio appends to both, _run_pty to stdout only.
captured(mode) ==
  CASE mode \in {"popen", "sudo"} -> {"stdout", "stderr"}
    [] mode = "pty" -> {"stdout"}
    [] OTHER -> {}

\* stdout.append(out) and stderr.append(err): the capture buffers are added
\* to the merged lists, whichever objects those are.
appended(owner, table, args) ==
  [name \in DOMAIN table |->
     IF name \in captured(args["mode"].v.s) /\ args[name].id = owner
       THEN PyList(table[name].items \o <<"capture">>)
       ELSE table[name]]

\* run(argv, **kwargs) with a child that exits with code.
run ==
  /\ raising = "none"
  /\ ran.t = "none"
  /\ \E u \in UserArgs, code \in ExitCodes :
       LET user_args == u
           args == merge_args(user_args)
       IN  /\ ran' = [t |-> IF args["mode"].v.s \notin {"popen", "pty", "sudo"}
                              THEN "ValueError"
                            ELSE IF enforced(args, code) THEN "Error" ELSE "Result",
                      code |-> code,
                      user |-> user_args,
                      args |-> [name \in Options |-> args[name].v],
                      call |-> call_enforced(args, code),
                      ctx0 |-> ctx,
                      defaults0 |-> defaults]
           /\ defaults' = appended("defaults", defaults, args)
           /\ ctx' = [name \in Keys |->
                        IF name = "count" THEN ctx[name]
                        ELSE appended("context", [o \in Options |-> ctx[o]], args)[name]]
  /\ UNCHANGED <<stack, raising>>

\* run() of a program that logs above NOISE: log_context returns at once.
Run == run /\ UNCHANGED ctxOthers

\* run.defaults is a module attribute a program may set: here as the module
\* sets it, or with a sink of the program's own in stdout.
ProgramDefaults == {Defaults, [Defaults EXCEPT !["stdout"] = PyList(<<"log">>)]}

ContextInit ==
  /\ DeployParked
  /\ LogStart
  /\ TreeStart
  /\ PoolStart
  /\ ScopeStart
  /\ SysStart
  /\ TeeStart
  /\ SudoStart
  /\ ScrubStart
  /\ TaskStart
  /\ RunStartState
  /\ ConfStart
  /\ ContextIdle
  /\ defaults \in ProgramDefaults

ContextNext ==
  \/ Enter
  \/ Throw
  \/ Leave
  \/ Catch
  \/ Run

ContextSpec == ContextInit /\ [][ContextNext]_vars

\* The sinks a value names, in order: none for None and for an empty list,
\* the object itself for a single sink.
sinks(v) ==
  CASE v.k \in {"list", "tuple"} -> v.items
    [] v.k = "obj" -> <<v.s>>
    [] OTHER -> <<>>

\* C17: in every call of run() each scalar option is the explicit argument
\* if that is not None, else the context's value if that is not None, else the
\* default; stdout and stderr are new lists of the caller's sinks, then the
\* default sinks, then the context's sinks; run.defaults and the context are
\* after the call what they were before it.
C17_OptionMerge ==
  ran.t # "none" =>
    /\ \A name \in Options \ {"stdout", "stderr"} :
         ran.args[name] =
           IF ran.user[name] # PyNone THEN ran.user[name]
           ELSE IF ran.ctx0[name] \notin {Absent, PyNone} THEN ran.ctx0[name]
           ELSE ran.defaults0[name]
    /\ \A name \in {"stdout", "stderr"} :
         ran.args[name] =
           PyList(sinks(ran.user[name]) \o sinks(ran.defaults0[name]) \o sinks(ran.ctx0[name]))
    /\ ctx = ran.ctx0
    /\ defaults = ran.defaults0

\* A call with a sink of its own, a default sink and a context sink, which
\* takes enforce_code from the context, enforce from its argument and the
\* rest from the defaults.
C17_Witness ==
  /\ ran.t = "Result"
  /\ ran.args["stdout"] = PyList(<<"c", "log", "a">>)
  /\ ran.user["enforce_code"] = PyNone
  /\ ran.args["enforce_code"] = PyInt(7)
  /\ ran.user["enforce"] = PyBool(FALSE)
  /\ ran.args["mode"] = PyObj("popen")

\* C18: a call of run() whose child exits with code c raises Error exactly
\* when the effective enforce is true and c differs from the effective
\* enforce_code, and returns the Result otherwise (Run.__call__ of lura/run.py
\* decides the same); a call inside Quash returns whatever the code, and with
\* enforce_code 7 the code 7 returns.
C18_Enforcement ==
  ran.t \in {"Error", "Result"} =>
    /\ ran.t = "Error" <=>
         (ran.args["enforce"].b /\ ran.code # ran.args["enforce_code"].n)
    /\ ran.call <=> ran.t = "Error"
    /\ (stack # <<>> /\ stack[Len(stack)].type = "Quash" /\ ran.user["enforce"] = PyNone)
         => ran.t = "Result"
    /\ (ran.args["enforce_code"] = PyInt(7) /\ ran.code = 7) => ran.t = "Result"

\* Inside Enforce(7) a child that exits with 0 makes run() raise Error.
C18_Witness ==
  /\ ran.t = "Error"
  /\ ran.code = 0
  /\ ran.user["enforce_code"] = PyNone
  /\ ran.args["enforce_code"] = PyInt(7)
  /\ stack # <<>>
  /\ stack[Len(stack)].type = "Enforce"

\* What a reader of the context sees in a variable: nothing for a missing
\* key, None and an empty sequence, the sinks for a sequence, the value
\* otherwise.
seen(v) ==
  IF v.k \in {"absent", "none"} \/ (v.k \in {"list", "tuple"} /\ v.items = <<>>)
    THEN PyNone
  ELSE IF v.k \in {"list", "tuple"} THEN PyList(v.items)
  ELSE v

\* C19: whenever a guard is left, normally or by an exception, every context
\* variable is seen as it was just before the guard was entered, and once the
\* outermost guard is left the context is empty.
C19_ContextRestored ==
  [][Len(stack') < Len(stack) =>
       /\ \A name \in Options : seen(ctx'[name]) = seen(stack[Len(stack)].snap[name])
       /\ stack' = <<>> => ctx' = NoContext]_vars

\* The nesting counter as a number: 0 when the key is not there.
count(c) == IF c["count"].k = "absent" THEN 0 ELSE c["count"].n

\* C20: the nesting counter is at all times the number of guards entered and
\* not yet left, whether they are left normally or by an exception, and when
\* no guard is entered the counter is removed and the context is cleared.
C20_NestingCounter ==
  /\ count(ctx) = Len(stack)
  /\ stack = <<>> => ctx = NoContext

(***************************************************************************)
(* Password scrubbing: scrub() of lura.utils                               *)
(***************************************************************************)

\* Cap on the nesting of mappings and sequences inside the scrubbed mapping.
MaxNest == 2

\* The default tag and a value that must not survive.
Tag == "[scrubbed]"
Secret == "hunter2"

\* Field names: Pass, xpass, PASS and user.
FieldNames ==
  {<<"P", "a", "s", "s">>, <<"x", "p", "a", "s", "s">>, <<"P", "A", "S", "S">>,
   <<"u", "s", "e", "r">>}

\* str.lower(), character by character.
lower_char(c) ==
  CASE c = "P" -> "p"
    [] c = "A" -> "a"
    [] c = "S" -> "s"
    [] OTHER -> c

lower(name) == [i \in 1..Len(name) |-> lower_char(name[i])]

\* `'pass' in name.lower()`.
looks_like_password(name) ==
  LET low == lower(name)
  IN  \E i \in 1..Len(low) :
        i + 3 <= Len(low) /\ SubSeq(low, i, i + 3) = <<"p", "a", "s", "s">>

\* isinstance(value, Sequence): lists and tuples, and str and bytes as well.
is_sequence(value) == value.cls \in {"seq", "str", "bytes"}

\* scrub(obj, tag): every item of the mapping in turn.  In the Sequence branch
\* the loop `for item in value` tests `isinstance(value, MutableMapping)`, the
\* sequence itself and not the item, so it scrubs nothing.
RECURSIVE scrub(_, _)
scrub(obj, tag) ==
  DMap([i \in 1..Len(obj.items) |->
     LET name == obj.items[i][1]
         value == obj.items[i][2]
     IN  IF value.cls = "str" /\ looks_like_password(name) THEN <<name, DStr(tag)>>
         ELSE IF value.cls = "bytes" /\ looks_like_password(name) THEN <<name, DBytes(tag)>>
         ELSE IF value.cls = "map" THEN <<name, scrub(value, Tag)>>
         ELSE IF is_sequence(value) /\ value.cls = "map" THEN <<name, scrub(value, Tag)>>
         ELSE <<name, value>>])

\* The values nested at most d deep: plain values, mappings of one field and
\* sequences of at most one item.
RECURSIVE Nested(_)
Nested(d) ==
  LET plain == {DStr(Secret), DBytes(Secret), DInt("1")}
  IN  IF d = 0 THEN plain
      ELSE plain \cup {DSeq(<<>>)}
             \cup {DMap(<< <<name, v>> >>) : name \in FieldNames, v \in Nested(d - 1)}
             \cup {DSeq(<<v>>) : v \in Nested(d - 1)}

\* The mappings given to scrub(): one field of any nested value, or two
\* plain fields.
ScrubInputs ==
  {DMap(<< <<name, v>> >>) : name \in FieldNames, v \in Nested(MaxNest)}
  \cup {DMap(<< <<n1, v1>>, <<n2, v2>> >>) :
          n1 \in {<<"P", "a", "s", "s">>}, n2 \in {<<"u", "s", "e", "r">>, <<"P", "A", "S", "S">>},
          v1 \in Nested(0), v2 \in Nested(0)}

\* scrub(obj) runs and returns obj.
Scrub ==
  /\ ~scrub_done
  /\ sobj' = scrub(sobj, Tag)
  /\ scrub_done' = TRUE
  /\ UNCHANGED sobj0
  /\ UNCHANGED scrubOthers

ScrubInit ==
  /\ DeployParked
  /\ LogStart
  /\ TreeStart
  /\ PoolStart
  /\ ScopeStart
  /\ SysStart
  /\ TeeStart
  /\ SudoStart
  /\ TaskStart
  /\ RunStartState
  /\ ConfStart
  /\ ContextStart
  /\ sobj \in ScrubInputs
  /\ sobj0 = sobj
  /\ scrub_done = FALSE

ScrubNext == Scrub

ScrubSpec == ScrubInit /\ [][ScrubNext]_vars

\* No str or bytes field with a password-like name holds anything but the
\* tag, in this value and in everything nested in it.
RECURSIVE Scrubbed(_)
Scrubbed(value) ==
  CASE value.cls = "map" ->
         \A i \in 1..Len(value.items) :
           LET name == value.items[i][1]
               field == value.items[i][2]
           IN  /\ (field.cls \in {"str", "bytes"} /\ looks_like_password(name)) => field.v = Tag
               /\ Scrubbed(field)
    [] value.cls = "seq" -> \A i \in 1..Len(value.items) : Scrubbed(value.items[i][2])
    [] OTHER -> TRUE

\* C21: after scrub(obj), at every depth of obj, through mappings in mappings
\* and mappings in sequences, each str or bytes field whose name contains
\* 'pass' in any case holds the scrub tag.
C21_ScrubbedAtEveryDepth == scrub_done => Scrubbed(sobj)

(***************************************************************************)
(* Sudo.popen of lura.sudo: the askpass handshake with the spawned sudo    *)
(***************************************************************************)

\* tls.timeout, in sleep intervals.
SudoTicks == 2

\* The names of the files popen puts in the scratch directory.
AskpassFile == "sudo_askpass"
FifoFile == "sudo_askpass_pipe"
OkFile == "sudo_ok"

\* os.path.join(tls.state_dir, name).
path_join(dir, name) == <<dir, "/", name>>

\* str(float(n)).
float_str(n) ==
  CASE n = 0 -> "0.0"
    [] n = 1 -> "1.0"
    [] n = 2 -> "2.0"
    [] n = 3 -> "3.0"
    [] OTHER -> "4.0"

\* The fields popen sets on self.tls for a call.
tls_of(call) ==
  [set |-> TRUE, argv |-> call.argv, user |-> call.user, group |-> call.group,
   login |-> call.login, password |-> call.password, timeout |-> SudoTicks,
   state_dir |-> "/tmp/tmpdir", fifo |-> Nil]

\* _command_argv(): touch <ok_path> && exec <argv>.
command_argv(t) ==
  <<"touch">> \o path_join(t.state_dir, OkFile) \o <<"&&", "exec">> \o t.argv

\* A sudo argv that hands the password to sudo on its command line.
sudo_argv_password(t) ==
  <<"sudo", "-S", "-p">> \o t.password \o command_argv(t)

\* _sudo_argv(): sudo -A [-u user] [-g group] [-i] <shell> -c <command>; the
\* quote marks stand for the bounds of the one argument the command is.
sudo_argv(t) ==
  <<"sudo", "-A">>
    \o (IF t.user # Nil THEN <<"-u", t.user>> ELSE <<>>)
    \o (IF t.group # Nil THEN <<"-g", t.group>> ELSE <<>>)
    \o (IF t.login THEN <<"-i">> ELSE <<>>)
    \o <<"/bin/sh", "-c", "'">> \o command_argv(t) \o <<"'">>

\* _askpass_argv(): <python> -m lura.sudo askpass <fifo_path> <timeout>.
askpass_argv(t) ==
  <<"python", "-m", "lura.sudo", "askpass">> \o path_join(t.state_dir, FifoFile)
    \o <<float_str(t.timeout)>>

\* _make_askpass(): the contents of the askpass script.
askpass_script(t) == <<"#!", "/bin/sh", "exec">> \o askpass_argv(t)

\* _check_ok(): os.path.isfile(tls.ok_path).
check_ok == state_dir.exists /\ OkFile \in state_dir.files

\* elapsed() and the timeout test of _wait_for_sudo.
timed_out == tls.timeout < su_clock.elapsed

\* The timeout test of _write_fifo, which has its own start and is given
\* timeout - elapsed().
write_timed_out == su_clock.wtimeout < su_clock.elapsed - su_clock.wstart

\* A handshake that takes the finished write for success.
after_write_return == "ret"

\* Where _wait_for_sudo goes when _write_fifo has returned: the loop that
\* awaits the ok file.
after_write == "await"

\* _reset() that keeps the password.
cleared_but_password(t) == [NoTls EXCEPT !.password = t.password]

\* _reset(): every attribute of tls deleted.
cleared(t) == NoTls

\* popen() up to the call of _popen(): the scratch directory is made and the
\* fields of tls are set; TemporaryDirectory() may fail.
SudoCall ==
  /\ su_pc = "idle"
  /\ \/ /\ state_dir' = [exists |-> TRUE, files |-> {}, script |-> <<>>]
        /\ tls' = tls_of(su_call)
        /\ su_pc' = "make"
        /\ UNCHANGED su_exc
     \/ /\ su_exc' = "OSError"
        /\ su_pc' = "reset"
        /\ UNCHANGED <<state_dir, tls>>
  /\ UNCHANGED <<su_call, su_clock, fifo, process, su_hist>>
  /\ UNCHANGED suOthers

\* _make_fifo() and _make_askpass(); writing into the directory may fail.
SudoMake ==
  /\ su_pc = "make"
  /\ \/ /\ state_dir' = [state_dir EXCEPT !.files = {FifoFile, AskpassFile},
                                           !.script = askpass_script(tls)]
        /\ su_pc' = "spawn"
        /\ UNCHANGED su_exc
     \/ /\ su_exc' = "OSError"
        /\ su_pc' = "reset"
        /\ UNCHANGED state_dir
  /\ UNCHANGED <<su_call, tls, su_clock, fifo, process, su_hist>>
  /\ UNCHANGED suOthers

\* subp.Popen(self._sudo_argv(), env with SUDO_ASKPASS); it may fail.
SudoSpawn ==
  /\ su_pc = "spawn"
  /\ \/ /\ process' = [st |-> "running", argv |-> sudo_argv(tls),
                       askpass |-> path_join(tls.state_dir, AskpassFile)]
        /\ su_pc' = "open"
        /\ su_clock' = [elapsed |-> 0, wstart |-> 0, wtimeout |-> 0]
        /\ UNCHANGED su_exc
     \/ /\ su_exc' = "OSError"
        /\ su_pc' = "reset"
        /\ UNCHANGED <<process, su_clock>>
  /\ UNCHANGED <<su_call, tls, state_dir, fifo, su_hist>>
  /\ UNCHANGED suOthers

\* _open_fifo(): the non-blocking open for writing succeeds only when a
\* reader has the pipe open.
SudoOpen ==
  /\ su_pc = "open"
  /\ IF fifo.reader
       THEN /\ tls' = [tls EXCEPT !.fifo = "open"]
            /\ su_clock' = [su_clock EXCEPT !.wstart = su_clock.elapsed,
                                            !.wtimeout = tls.timeout - su_clock.elapsed]
            /\ su_pc' = "write"
       ELSE /\ su_pc' = "check1"
            /\ UNCHANGED <<tls, su_clock>>
  /\ UNCHANGED <<su_call, su_exc, state_dir, fifo, process, su_hist>>
  /\ UNCHANGED suOthers

\* _write_fifo, `i += os.write(fifo, password[i:])`: some or all of the
\* remaining bytes are written, or the write would block.  None has no
\* encode().  Leaving _write_fifo runs _close_fifo (the finally clause).
SudoWrite ==
  /\ su_pc = "write"
  /\ IF tls.password = NoPassword
       THEN /\ su_exc' = "AttributeError"
            /\ tls' = [tls EXCEPT !.fifo = Nil]
            /\ su_pc' = "kill"
            /\ UNCHANGED <<fifo, su_hist>>
       ELSE \/ \E n \in 1..(Len(tls.password) - fifo.i) :
                 /\ fifo' = [fifo EXCEPT !.i = fifo.i + n,
                                         !.data = SubSeq(tls.password, 1, fifo.i + n)]
                 /\ su_hist' = [su_hist EXCEPT !.late_write = su_hist.ok_seen]
                 /\ IF fifo.i + n = Len(tls.password)
                      THEN /\ tls' = [tls EXCEPT !.fifo = Nil]
                           /\ su_pc' = after_write
                      ELSE /\ su_pc' = "wcheck"
                           /\ UNCHANGED tls
                 /\ UNCHANGED su_exc
            \/ /\ su_pc' = "wcheck"
               /\ UNCHANGED <<fifo, su_hist, tls, su_exc>>
  /\ UNCHANGED <<su_call, su_clock, state_dir, process>>
  /\ UNCHANGED suOthers

\* _write_fifo after a write that did not finish: return if the ok file is
\* there, raise when timed out, else sleep and write again.
SudoWriteCheck ==
  /\ su_pc = "wcheck"
  /\ IF check_ok
       THEN /\ su_hist' = [su_hist EXCEPT !.ok_seen = TRUE]
            /\ tls' = [tls EXCEPT !.fifo = Nil]
            /\ su_pc' = after_write
            /\ UNCHANGED <<su_exc, su_clock>>
     ELSE IF write_timed_out
       THEN /\ su_exc' = "TimeoutExpired"
            /\ tls' = [tls EXCEPT !.fifo = Nil]
            /\ su_pc' = "kill"
            /\ UNCHANGED <<su_hist, su_clock>>
     ELSE /\ su_clock' = [su_clock EXCEPT !.elapsed = su_clock.elapsed + 1]
          /\ su_pc' = "write"
          /\ UNCHANGED <<su_hist, tls, su_exc>>
  /\ UNCHANGED <<su_call, state_dir, fifo, process>>
  /\ UNCHANGED suOthers

\* _wait_for_sudo, first loop after a failed open: return if the ok file is
\* there, raise when timed out, else sleep and open again.
SudoCheck1 ==
  /\ su_pc = "check1"
  /\ IF check_ok
       THEN /\ su_hist' = [su_hist EXCEPT !.ok_seen = TRUE]
            /\ su_pc' = "ret"
            /\ UNCHANGED <<su_exc, su_clock>>
     ELSE IF timed_out
       THEN /\ su_exc' = "TimeoutExpired"
            /\ su_pc' = "kill"
            /\ UNCHANGED <<su_hist, su_clock>>
     ELSE /\ su_clock' = [su_clock EXCEPT !.elapsed = su_clock.elapsed + 1]
          /\ su_pc' = "open"
          /\ UNCHANGED <<su_hist, su_exc>>
  /\ UNCHANGED <<su_call, tls, state_dir, fifo, process>>
  /\ UNCHANGED suOthers

\* _wait_for_sudo, second loop: `while not self._check_ok()`, raising when
\* timed out and sleeping otherwise.
SudoAwait ==
  /\ su_pc = "await"
  /\ IF check_ok
       THEN /\ su_hist' = [su_hist EXCEPT !.ok_seen = TRUE]
            /\ su_pc' = "ret"
            /\ UNCHANGED <<su_exc, su_clock>>
     ELSE IF timed_out
       THEN /\ su_exc' = "TimeoutExpired"
            /\ su_pc' = "kill"
            /\ UNCHANGED <<su_hist, su_clock>>
     ELSE /\ su_clock' = [su_clock EXCEPT !.elapsed = su_clock.elapsed + 1]
          /\ UNCHANGED <<su_pc, su_hist, su_exc>>
  /\ UNCHANGED <<su_call, tls, state_dir, fifo, process>>
  /\ UNCHANGED suOthers

\* _popen: `except Exception: process.kill(); raise`.
SudoKill ==
  /\ su_pc = "kill"
  /\ process' = [process EXCEPT !.st = "killed"]
  /\ su_pc' = "reset"
  /\ UNCHANGED <<su_call, tls, su_exc, su_clock, state_dir, fifo, su_hist>>
  /\ UNCHANGED suOthers

\* _popen returns the process.
SudoReturn ==
  /\ su_pc = "ret"
  /\ su_pc' = "reset"
  /\ UNCHANGED <<su_call, tls, su_exc, su_clock, state_dir, fifo, process, su_hist>>
  /\ UNCHANGED suOthers

\* popen's finally clause, _reset(): the TemporaryDirectory is exited, which
\* removes the directory and what is in it (an exception there, as when the
\* directory was never made, is logged and dropped), and tls is cleared.
SudoReset ==
  /\ su_pc = "reset"
  /\ state_dir' = NoDir
  /\ fifo' = [fifo EXCEPT !.reader = FALSE]
  /\ tls' = cleared(tls)
  /\ su_pc' = IF su_exc = "none" THEN "returned" ELSE "raised"
  /\ UNCHANGED <<su_call, su_exc, su_clock, process, su_hist>>
  /\ UNCHANGED suOthers

\* sudo asks for the password: it runs the askpass script, whose process
\* opens the pipe for reading.
AskpassStarts ==
  /\ process.st = "running"
  /\ state_dir.exists
  /\ ~check_ok
  /\ ~fifo.reader
  /\ fifo.i = 0
  /\ fifo' = [fifo EXCEPT !.reader = TRUE]
  /\ UNCHANGED <<su_call, tls, su_pc, su_exc, su_clock, state_dir, process, su_hist>>
  /\ UNCHANGED suOthers

\* The writer has closed the pipe: askpass has read what was written, hands
\* it to sudo and exits.
AskpassReads ==
  /\ process.st = "running"
  /\ fifo.reader
  /\ tls.set /\ tls.fifo = Nil
  /\ su_pc \notin {"open", "check1"}
  /\ fifo' = [fifo EXCEPT !.reader = FALSE]
  /\ UNCHANGED <<su_call, tls, su_pc, su_exc, su_clock, state_dir, process, su_hist>>
  /\ UNCHANGED suOthers

\* sudo is satisfied, with or without having asked: its shell runs
\* `touch <ok_path>` and then the command.
SudoTouchesOk ==
  /\ process.st = "running"
  /\ state_dir.exists
  /\ ~check_ok
  /\ state_dir' = [state_dir EXCEPT !.files = @ \cup {OkFile}]
  /\ UNCHANGED <<su_call, tls, su_pc, su_exc, su_clock, fifo, process, su_hist>>
  /\ UNCHANGED suOthers

\* The calls of popen: with and without user, group, login and password.
Passwords == {<<"s3c", "ret">>, <<"hun", "ter">>}

SudoCalls ==
  [argv : {<<"id">>}, user : {Nil, "root"}, group : {Nil, "wheel"}, login : BOOLEAN,
   password : Passwords \cup {NoPassword}]

SudoInit ==
  /\ DeployParked
  /\ LogStart
  /\ TreeStart
  /\ PoolStart
  /\ ScopeStart
  /\ SysStart
  /\ TeeStart
  /\ ScrubStart
  /\ TaskStart
  /\ RunStartState
  /\ ConfStart
  /\ ContextStart
  /\ su_call \in SudoCalls
  /\ SudoIdle

SudoNext ==
  \/ SudoCall
  \/ SudoMake
  \/ SudoSpawn
  \/ SudoOpen
  \/ SudoWrite
  \/ SudoWriteCheck
  \/ SudoCheck1
  \/ SudoAwait
  \/ SudoKill
  \/ SudoReturn
  \/ SudoReset
  \/ AskpassStarts
  \/ AskpassReads
  \/ SudoTouchesOk

SudoSpec == SudoInit /\ [][SudoNext]_vars

mentions(words, password) ==
  \E i \in 1..Len(words), j \in 1..Len(password) : words[i] = password[j]

\* The call that differs from the one made in the password only.
with_password(p) == tls_of([su_call EXCEPT !.password = p])

\* C24: the argv sudo is spawned with, the path in SUDO_ASKPASS, the askpass
\* argv and the contents of the askpass script are what they would be for
\* any other password, or none, and hold no piece of the password; what has
\* gone into the pipe is a prefix of the password, written while a reader
\* had the pipe open.
C24_PasswordInNoCommandLine ==
  /\ process.st # "none" =>
       /\ \A p \in Passwords \cup {NoPassword} : process.argv = sudo_argv(with_password(p))
       /\ ~mentions(process.argv, su_call.password)
       /\ ~mentions(process.askpass, su_call.password)
  /\ state_dir.script # <<>> =>
       /\ \A p \in Passwords \cup {NoPassword} :
            /\ state_dir.script = askpass_script(with_password(p))
            /\ askpass_argv(tls) = askpass_argv(with_password(p))
       /\ ~mentions(state_dir.script, su_call.password)
  /\ fifo.data = SubSeq(su_call.password, 1, fifo.i)
  /\ fifo.i > 0 => process.st # "none"

\* sudo runs with a user, a group and a login shell, and the whole password
\* has gone through the pipe.
C24_Witness ==
  /\ process.st = "running"
  /\ su_call.user # Nil /\ su_call.group # Nil /\ su_call.login
  /\ su_call.password \in Passwords
  /\ fifo.data = su_call.password
  /\ state_dir.script # <<>>

\* ---------------------------------------------------------------------
\* The pumps: Tee of lura/run.py and tee of lura/io.py.

\* The longest source, in chunks.
MaxChunks == 2

\* The three loops: Tee._run_text and Tee._run_binary of lura/run.py, and
\* tee of lura/io.py under the thread of lura.io.Tee.
RunPumps == {"Tee._run_text", "Tee._run_binary"}
Pumps == RunPumps \cup {"tee"}

\* The targets of the pump, in the order of the sequence it was given.
Targets == 1..Len(tee_out)

\* source.readline() or source.read(buflen): the next chunk, and the empty
\* string (or bytes) once the source is at its end.
readline(src, rd) == IF rd < Len(src) THEN src[rd + 1] ELSE ""

\* `if buf == '': break` and `if buf == b'': break` of lura/run.py.
run_at_eof(buf) == buf = ""

\* `if len(data) == '': break` of lura/io.py with the empty string for the
\* length.
io_at_eof_len(data) == data = ""

\* `if len(data) == '': break` of lura/io.py: len(data) is an int, and an
\* int is equal to no str.
io_at_eof(data) == FALSE

at_eof(pump, buf) == IF pump \in RunPumps THEN run_at_eof(buf) ELSE io_at_eof(buf)

\* A write that puts the chunk in front of what the target has.
write_front(target, buf) == IF buf = "" THEN target ELSE <<buf>> \o target

\* target.write(buf): the chunk is added at the end of the target; writing
\* the empty string adds nothing.
write(target, buf) == IF buf = "" THEN target ELSE Append(target, buf)

\* The thread starts: Tee.run sets _work, lura.io.Tee.work sets work.
TeeRun ==
  /\ tee_pc = "new"
  /\ tee_work' = TRUE
  /\ tee_pc' = "cond"
  /\ UNCHANGED <<tee_in, tee_rd, tee_buf, tee_tj, tee_out, tee_err, tee_hist>>
  /\ UNCHANGED teeOthers

\* `while self._work:` and `while cond():`.
TeeCond ==
  /\ tee_pc = "cond"
  /\ tee_pc' = IF tee_work THEN "read" ELSE "finally"
  /\ UNCHANGED <<tee_in, tee_work, tee_rd, tee_buf, tee_tj, tee_out, tee_err, tee_hist>>
  /\ UNCHANGED teeOthers

\* History: the reads begun after stop(), counted up to 2.
reads_after_stop == IF tee_hist.stopped /\ tee_hist.after < 2 THEN tee_hist.after + 1
                    ELSE tee_hist.after

\* The read and the test for the end of input; the read may raise, which
\* nothing in the loop catches.
TeeRead ==
  /\ tee_pc = "read"
  /\ \/ /\ tee_buf' = readline(tee_in.src, tee_rd)
        /\ tee_rd' = IF tee_rd < Len(tee_in.src) THEN tee_rd + 1 ELSE tee_rd
        /\ tee_hist' = [tee_hist EXCEPT !.eof = @ \/ tee_buf' = "",
                                        !.after = reads_after_stop]
        /\ tee_tj' = 1
        /\ tee_pc' = IF at_eof(tee_in.pump, tee_buf') THEN "finally" ELSE "write"
        /\ UNCHANGED tee_err
     \/ /\ tee_err' = "read"
        /\ tee_hist' = [tee_hist EXCEPT !.rfailed = TRUE, !.after = reads_after_stop]
        /\ tee_pc' = "finally"
        /\ UNCHANGED <<tee_buf, tee_rd, tee_tj>>
  /\ UNCHANGED <<tee_in, tee_work, tee_out>>
  /\ UNCHANGED teeOthers

\* `for target in targets: target.write(buf)`, one target at a time; a
\* write may raise, which nothing in the loop catches.
TeeWrite ==
  /\ tee_pc = "write"
  /\ \/ /\ tee_out' = [tee_out EXCEPT ![tee_tj] = write(@, tee_buf)]
        /\ tee_tj' = tee_tj + 1
        /\ tee_pc' = IF tee_tj = Len(tee_out) THEN "cond" ELSE "write"
        /\ UNCHANGED <<tee_err, tee_hist>>
     \/ /\ tee_err' = "write"
        /\ tee_hist' = [tee_hist EXCEPT !.wfailed = @ \cup {<<tee_tj, tee_rd>>}]
        /\ tee_pc' = "finally"
        /\ UNCHANGED <<tee_out, tee_tj>>
  /\ UNCHANGED <<tee_in, tee_work, tee_rd, tee_buf>>
  /\ UNCHANGED teeOthers

\* The loop is left: the finally clause of Tee.run clears _work (work of
\* lura.io.Tee has none), and the thread ends, Thread._thread_work keeping
\* the exception if there was one.
TeeFinally ==
  /\ tee_pc = "finally"
  /\ tee_work' = IF tee_in.pump \in RunPumps THEN FALSE ELSE tee_work
  /\ tee_pc' = "done"
  /\ UNCHANGED <<tee_in, tee_rd, tee_buf, tee_tj, tee_out, tee_err, tee_hist>>
  /\ UNCHANGED teeOthers

\* stop(), called by another thread at any moment.
TeeStop ==
  /\ ~tee_hist.stopped
  /\ tee_work' = FALSE
  /\ tee_hist' = [tee_hist EXCEPT !.stopped = TRUE]
  /\ UNCHANGED <<tee_in, tee_pc, tee_rd, tee_buf, tee_tj, tee_out, tee_err>>
  /\ UNCHANGED teeOthers

\* The sources: up to MaxChunks lines, or blocks of at most buflen bytes.
TeeSources == UNION {[1..n -> {"a", "b"}] : n \in 0..MaxChunks}

TeeInit ==
  /\ DeployParked
  /\ LogStart
  /\ TreeStart
  /\ PoolStart
  /\ ScopeStart
  /\ SysStart
  /\ ScrubStart
  /\ SudoStart
  /\ TaskStart
  /\ RunStartState
  /\ ConfStart
  /\ ContextStart
  /\ tee_in \in [pump : Pumps, src : TeeSources]
  /\ TeeIdle

TeeNext ==
  \/ TeeRun
  \/ TeeCond
  \/ TeeRead
  \/ TeeWrite
  \/ TeeFinally
  \/ TeeStop

TeeSpec == TeeInit /\ [][TeeNext]_vars

\* The thread of the pump, which runs whenever it can.
TeeThread == TeeRun \/ TeeCond \/ TeeRead \/ TeeWrite \/ TeeFinally
TeeFairSpec == TeeSpec /\ WF_vars(TeeThread)

\* The chunks 1..i of the source without those whose write to target j
\* raised.
RECURSIVE received(_, _)
received(j, i) ==
  IF i = 0 THEN <<>>
  ELSE received(j, i - 1)
         \o (IF <<j, i>> \in tee_hist.wfailed THEN <<>> ELSE <<tee_in.src[i]>>)

\* No stop(), no failed read, no failed write.
undisturbed == ~tee_hist.stopped /\ ~tee_hist.rfailed /\ tee_hist.wfailed = {}

\* C25: a write that raises does not end the pump: no pump ends with the
\* exception of a write, and every target has every chunk read so far whose
\* write to it did not raise, once the pump is through with the chunk; a read
\* that raises ends the pump.
C25_WriteFailureDoesNotHalt ==
  /\ tee_err # "write"
  /\ tee_pc \in {"cond", "read", "finally", "done"} =>
       \A j \in Targets : tee_out[j] = received(j, tee_rd)
  /\ tee_hist.rfailed => tee_pc \in {"finally", "done"}

\* C26: a Tee of lura/run.py that is not stopped and whose reads and writes
\* do not fail gives every target the chunks of the source in the order of
\* the source: during the copy each target has all chunks read before the
\* current one, and the current one when its turn has passed; once the end
\* of input is read the loop is left with every target holding exactly the
\* source, and the thread ends with _work cleared.
C26_FanOutInOrder ==
  (tee_in.pump \in RunPumps /\ undisturbed) =>
    /\ \A j \in Targets :
         tee_out[j] = SubSeq(tee_in.src, 1,
                             IF tee_pc = "write" /\ j >= tee_tj THEN tee_rd - 1 ELSE tee_rd)
    /\ tee_hist.eof =>
         /\ tee_pc \in {"finally", "done"}
         /\ \A j \in Targets : tee_out[j] = tee_in.src
    /\ tee_pc \in {"finally", "done"} => tee_hist.eof
    /\ tee_pc = "done" => ~tee_work

\* A Tee of lura/run.py has ended at the end of a source of two different
\* chunks, and both targets hold them.
C26_Witness ==
  /\ tee_in.pump \in RunPumps
  /\ undisturbed
  /\ tee_pc = "done"
  /\ tee_in.src = <<"a", "b">>
  /\ tee_out = <<tee_in.src, tee_in.src>>

\* C27: tee of lura/io.py, its condition staying true and no read or write
\* failing, has left its loop once readline has returned the empty string,
\* with every line of the source written to every target.
C27_TeeReturnsAtEof ==
  (tee_in.pump = "tee" /\ undisturbed /\ tee_hist.eof) =>
    /\ tee_pc \in {"finally", "done"}
    /\ \A j \in Targets : tee_out[j] = tee_in.src

\* ---------------------------------------------------------------------
\* Local and Ssh of lura/system/coreutils.py over the Client of lura/ssh.py.

\* The operations one System is given.
MaxHostOps == 3

\* The user of the ssh session, or of the local process.
SessionUser == "deploy"

\* os.path.basename.
basename(path) ==
  CASE path = "/d/a" -> "a"
    [] path = "/e/a" -> "a"
    [] path = "/e/b" -> "b"
    [] OTHER -> "c"

\* Ssh.run: Client.sudo when use_sudo, else Client.run; the user the command
\* runs as (sudo_user stays None: root).
run_as(obj) == IF obj.use_sudo THEN "root" ELSE SessionUser

\* System.name: `self._name or self.host`.
sys_host == IF sys_in.cls = "Local" THEN "localhost" ELSE sys_obj._host
sys_name == IF sys_in.name # Nil THEN sys_in.name ELSE sys_host

\* Client.connect(): _connect() when there is no connection; the connection
\* is made to whatever _host holds, and cannot be made to None.
can_connect(obj) == obj._conn # Nil \/ obj._host # Nil
connect(obj) == IF obj._conn = Nil THEN [obj EXCEPT !._conn = obj._host] ELSE obj

\* Client.close(): _close() when there is a connection; its finally clause
\* sets _conn and _host to None.
close(obj) == IF obj._conn # Nil THEN [obj EXCEPT !._conn = Nil, !._host = Nil] ELSE obj

\* nosudo() that does not put use_sudo back.
nosudo_exit_off(obj, o_use_sudo) == obj

\* nosudo(): use_sudo is saved and cleared, and put back in the finally
\* clause.
nosudo_enter(obj) == [obj EXCEPT !.use_sudo = FALSE]
nosudo_exit(obj, o_use_sudo) == [obj EXCEPT !.use_sudo = o_use_sudo]

\* chown as `user`: root may give a file to anyone, another user only what
\* is theirs to themselves.
may_chown(user, owner, spec) == user = "root" \/ (user = owner /\ spec = owner)

\* Access to the temp directory mktemp -d made (mode 0700).
may_enter(user, tmp) == tmp.exists /\ (user = "root" \/ user = tmp.owner)

\* The commands of Ssh.put and of Ssh.get, in the order of the code.
PutOrder == <<"whoami", "mktemp", "chown", "transfer", "cp", "rmrf">>
GetOrder == <<"whoami", "mktemp", "cp", "chown", "transfer", "rmrf">>
order_of(opname) == IF opname = "put" THEN PutOrder ELSE GetOrder

\* The command after `step`.
after(opname, step) ==
  LET o == order_of(opname)
      i == CHOOSE n \in 1..Len(o) : o[n] = step
  IN  IF i = Len(o) THEN "done" ELSE o[i + 1]

\* A command of the operation has run, as `user`.
traced(step, user) == Append(sys_trace, [step |-> step, user |-> user])

\* What the operation leaves for the next one to be compared with.
summary(prev, ok, bytes) ==
  [name |-> prev.name, dst |-> prev.dst, bytes |-> bytes, ok |-> ok,
   envfail |-> sys_hist.envfail]

\* An operation may be called: the one before has ended.
callable == sys_op.pc \in {"idle", "done"} /\ sys_hist.ops < MaxHostOps

\* The call of an operation: what is recorded for it, and of the one before.
called(opname, src, dst, first, raised) ==
  /\ sys_op' = [name |-> opname, src |-> src, dst |-> dst, pc |-> first, whoami |-> Nil,
                sudo0 |-> sys_obj.use_sudo]
  /\ sys_exc' = raised
  /\ sys_trace' = <<>>
  /\ sys_hist' = [sys_hist EXCEPT
                    !.ops = @ + 1,
                    !.envfail = FALSE,
                    !.prev = summary(sys_op, sys_exc = "none",
                                     IF sys_op.name = "put" THEN sys_lfs[sys_op.src] ELSE Nil)]

\* put(src, dst) is called on the System.
SysPut ==
  /\ callable
  /\ \E dst \in {"/e/a", "/e/b"} :
       called("put", "/d/a", dst, IF sys_in.cls = "Local" THEN "cpf" ELSE "whoami", "none")
  /\ UNCHANGED <<sys_in, sys_obj, sys_lfs, sys_rfs, sys_tmp>>
  /\ UNCHANGED sysOthers

\* get(src, dst) is called on the System.
SysGet ==
  /\ callable
  /\ \E src \in {"/e/a", "/e/b"} :
       called("get", src, "/f/c", IF sys_in.cls = "Local" THEN "cpf" ELSE "whoami", "none")
  /\ UNCHANGED <<sys_in, sys_obj, sys_lfs, sys_rfs, sys_tmp>>
  /\ UNCHANGED sysOthers

\* Local.put and Local.get: cpf(src, dst), `cp -f` run on this machine.
LocalCpf ==
  /\ sys_in.cls = "Local"
  /\ sys_op.pc = "cpf"
  /\ IF sys_lfs[sys_op.src] # Nil
       THEN /\ sys_lfs' = [sys_lfs EXCEPT ![sys_op.dst] = sys_lfs[sys_op.src]]
            /\ UNCHANGED sys_exc
       ELSE /\ sys_exc' = "run.Error"
            /\ UNCHANGED sys_lfs
  /\ sys_trace' = traced("cp", run_as(sys_obj))
  /\ sys_op' = [sys_op EXCEPT !.pc = "done"]
  /\ UNCHANGED <<sys_in, sys_obj, sys_rfs, sys_tmp, sys_hist>>
  /\ UNCHANGED sysOthers

\* `with self.nosudo(): whoami = self.whoami()`: the command runs with
\* use_sudo cleared, on a connection made if there was none; it may fail.
SshWhoami ==
  /\ sys_op.pc = "whoami"
  /\ LET inside == nosudo_enter(sys_obj)
     IN  \/ /\ can_connect(inside)
            /\ sys_obj' = nosudo_exit(connect(inside), sys_obj.use_sudo)
            /\ sys_op' = [sys_op EXCEPT !.whoami = run_as(inside),
                                        !.pc = after(sys_op.name, "whoami")]
            /\ sys_trace' = traced("whoami", run_as(inside))
            /\ UNCHANGED <<sys_exc, sys_hist>>
         \/ /\ can_connect(inside)
            /\ sys_obj' = nosudo_exit(connect(inside), sys_obj.use_sudo)
            /\ sys_exc' = "UnexpectedExit"
            /\ sys_hist' = [sys_hist EXCEPT !.envfail = TRUE]
            /\ sys_op' = [sys_op EXCEPT !.pc = "done"]
            /\ sys_trace' = traced("whoami", run_as(inside))
         \/ /\ ~can_connect(inside)
            /\ sys_obj' = nosudo_exit(inside, sys_obj.use_sudo)
            /\ sys_exc' = "ConnectError"
            /\ sys_op' = [sys_op EXCEPT !.pc = "done"]
            /\ UNCHANGED <<sys_trace, sys_hist>>
  /\ UNCHANGED <<sys_in, sys_lfs, sys_rfs, sys_tmp>>
  /\ UNCHANGED sysOthers

\* tempdir(): `mktemp -d` run as Ssh.run runs it; when it fails there is no
\* directory and nothing to remove.
SshMktemp ==
  /\ sys_op.pc = "mktemp"
  /\ sys_trace' = traced("mktemp", run_as(sys_obj))
  /\ \/ /\ sys_tmp' = [NoTmp EXCEPT !.exists = TRUE, !.owner = run_as(sys_obj)]
        /\ sys_op' = [sys_op EXCEPT !.pc = after(sys_op.name, "mktemp")]
        /\ UNCHANGED <<sys_exc, sys_hist>>
     \/ /\ sys_exc' = "UnexpectedExit"
        /\ sys_hist' = [sys_hist EXCEPT !.envfail = TRUE]
        /\ sys_op' = [sys_op EXCEPT !.pc = "done"]
        /\ UNCHANGED sys_tmp
  /\ UNCHANGED <<sys_in, sys_obj, sys_lfs, sys_rfs>>
  /\ UNCHANGED sysOthers

\* self.chown(temp_dir, whoami), recursive in get: `chown` run as Ssh.run
\* runs it.
SshChown ==
  /\ sys_op.pc = "chown"
  /\ sys_trace' = traced("chown", run_as(sys_obj))
  /\ \/ /\ may_chown(run_as(sys_obj), sys_tmp.owner, sys_op.whoami)
        /\ sys_tmp' = [sys_tmp EXCEPT !.owner = sys_op.whoami]
        /\ sys_op' = [sys_op EXCEPT !.pc = after(sys_op.name, "chown")]
        /\ UNCHANGED <<sys_exc, sys_hist>>
     \/ /\ sys_exc' = "UnexpectedExit"
        /\ sys_hist' = [sys_hist EXCEPT
                          !.envfail = @ \/ may_chown(run_as(sys_obj), sys_tmp.owner, sys_op.whoami)]
        /\ sys_op' = [sys_op EXCEPT !.pc = "rmrf"]
        /\ UNCHANGED sys_tmp
  /\ UNCHANGED <<sys_in, sys_obj, sys_lfs, sys_rfs>>
  /\ UNCHANGED sysOthers

\* Client.put(src, temp_dir) and Client.get(tmpsrc, dst): the transfer of the
\* session user.  put names the directory as the remote path, so the file
\* arrives under the base name of src; get reads the file named after the
\* base name of its src.
SshTransfer ==
  /\ sys_op.pc = "transfer"
  /\ sys_trace' = traced("transfer", SessionUser)
  /\ LET file == IF sys_op.name = "put" THEN sys_lfs[sys_op.src]
                 ELSE sys_tmp.files[basename(sys_op.src)]
         possible == may_enter(SessionUser, sys_tmp) /\ file # Nil
     IN  \/ /\ possible
            /\ IF sys_op.name = "put"
                 THEN /\ sys_tmp' = [sys_tmp EXCEPT !.files[basename(sys_op.src)] = file]
                      /\ UNCHANGED sys_lfs
                 ELSE /\ sys_lfs' = [sys_lfs EXCEPT ![sys_op.dst] = file]
                      /\ UNCHANGED sys_tmp
            /\ sys_op' = [sys_op EXCEPT !.pc = after(sys_op.name, "transfer")]
            /\ UNCHANGED <<sys_exc, sys_hist>>
         \/ /\ sys_exc' = "IOError"
            /\ sys_hist' = [sys_hist EXCEPT !.envfail = @ \/ possible]
            /\ sys_op' = [sys_op EXCEPT !.pc = "rmrf"]
            /\ UNCHANGED <<sys_lfs, sys_tmp>>
  /\ UNCHANGED <<sys_in, sys_obj, sys_rfs>>
  /\ UNCHANGED sysOthers

\* put: self.cpf(tmp, dst) with tmp = temp_dir/basename(dst); get:
\* self.cpf(src, tmpsrc) with tmpsrc = temp_dir/basename(src).  `cp -f` run as
\* Ssh.run runs it.
SshCpf ==
  /\ sys_op.pc = "cp"
  /\ sys_trace' = traced("cp", run_as(sys_obj))
  /\ LET file == IF sys_op.name = "put" THEN sys_tmp.files[basename(sys_op.dst)]
                 ELSE sys_rfs[sys_op.src]
         possible == may_enter(run_as(sys_obj), sys_tmp) /\ file # Nil
     IN  \/ /\ possible
            /\ IF sys_op.name = "put"
                 THEN /\ sys_rfs' = [sys_rfs EXCEPT ![sys_op.dst] = file]
                      /\ UNCHANGED sys_tmp
                 ELSE /\ sys_tmp' = [sys_tmp EXCEPT !.files[basename(sys_op.src)] = file]
                      /\ UNCHANGED sys_rfs
            /\ sys_op' = [sys_op EXCEPT !.pc = after(sys_op.name, "cp")]
            /\ UNCHANGED <<sys_exc, sys_hist>>
         \/ /\ sys_exc' = "UnexpectedExit"
            /\ sys_hist' = [sys_hist EXCEPT !.envfail = @ \/ possible]
            /\ sys_op' = [sys_op EXCEPT !.pc = "rmrf"]
            /\ UNCHANGED <<sys_rfs, sys_tmp>>
  /\ UNCHANGED <<sys_in, sys_obj, sys_lfs>>
  /\ UNCHANGED sysOthers

\* The finally clause of tempdir(): self.rmrf(path), then the exception of
\* the body, if any, goes on.
SshRmrf ==
  /\ sys_op.pc = "rmrf"
  /\ sys_trace' = traced("rmrf", run_as(sys_obj))
  /\ sys_tmp' = NoTmp
  /\ sys_op' = [sys_op EXCEPT !.pc = "done"]
  /\ UNCHANGED <<sys_in, sys_obj, sys_lfs, sys_rfs, sys_exc, sys_hist>>
  /\ UNCHANGED sysOthers

\* run(argv) on the System: on an Ssh, Client.run or Client.sudo, which
\* connect first.
SysRun ==
  /\ callable
  /\ IF sys_in.cls = "Local"
       THEN /\ called("run", Nil, Nil, "done", "none")
            /\ UNCHANGED sys_obj
     ELSE IF can_connect(sys_obj)
       THEN /\ called("run", Nil, Nil, "done", "none")
            /\ sys_obj' = connect(sys_obj)
     ELSE /\ called("run", Nil, Nil, "done", "ConnectError")
          /\ UNCHANGED sys_obj
  /\ UNCHANGED <<sys_in, sys_lfs, sys_rfs, sys_tmp>>
  /\ UNCHANGED sysOthers

\* Client.connect() of the Ssh.
SysConnect ==
  /\ callable
  /\ sys_in.cls = "Ssh"
  /\ IF can_connect(sys_obj)
       THEN /\ called("connect", Nil, Nil, "done", "none")
            /\ sys_obj' = connect(sys_obj)
       ELSE /\ called("connect", Nil, Nil, "done", "ConnectError")
            /\ UNCHANGED sys_obj
  /\ UNCHANGED <<sys_in, sys_lfs, sys_rfs, sys_tmp>>
  /\ UNCHANGED sysOthers

\* Client.close() of the Ssh.
SysClose ==
  /\ callable
  /\ sys_in.cls = "Ssh"
  /\ called("close", Nil, Nil, "done", "none")
  /\ sys_obj' = close(sys_obj)
  /\ UNCHANGED <<sys_in, sys_lfs, sys_rfs, sys_tmp>>
  /\ UNCHANGED sysOthers

\* The Systems: Local and Ssh, named or not, with and without sudo.
Systems ==
  [cls : {"Local"}, name : {Nil, "web"}, host : {"localhost"}, sudo : BOOLEAN]
    \cup [cls : {"Ssh"}, name : {Nil, "web"}, host : {"10.0.0.7"}, sudo : BOOLEAN]

SysInit ==
  /\ DeployParked
  /\ LogStart
  /\ TreeStart
  /\ PoolStart
  /\ ScopeStart
  /\ TeeStart
  /\ ScrubStart
  /\ SudoStart
  /\ TaskStart
  /\ RunStartState
  /\ ConfStart
  /\ ContextStart
  /\ sys_in \in Systems
  /\ sys_obj = constructed(sys_in)
  /\ SysIdle

SysNext ==
  \/ SysPut
  \/ SysGet
  \/ LocalCpf
  \/ SshWhoami
  \/ SshMktemp
  \/ SshChown
  \/ SshTransfer
  \/ SshCpf
  \/ SshRmrf
  \/ SysRun
  \/ SysConnect
  \/ SysClose

SysSpec == SysInit /\ [][SysNext]_vars

\* The file put or get has made at its destination.
arrived ==
  IF sys_op.name = "get" \/ sys_in.cls = "Local" THEN sys_lfs[sys_op.dst]
  ELSE sys_rfs[sys_op.dst]

\* No command of the operation failed by itself, and the Client was not
\* closed before.
unhindered == ~sys_hist.envfail /\ sys_obj._host # Nil

\* C28: put(src, dst) leaves the bytes of src at dst, whatever the base name
\* of dst, and a get(dst, src2) that follows it leaves them at src2, on a
\* Local and on an Ssh, with and without sudo.
C28_PutGetRoundTrip ==
  /\ (sys_op.name = "put" /\ sys_op.pc = "done" /\ unhindered) =>
       /\ sys_exc = "none"
       /\ arrived = sys_lfs[sys_op.src]
  /\ (/\ sys_op.name = "get" /\ sys_op.pc = "done" /\ unhindered
      /\ sys_hist.prev.name = "put" /\ sys_hist.prev.dst = sys_op.src
      /\ ~sys_hist.prev.envfail) =>
       /\ sys_exc = "none"
       /\ arrived = sys_hist.prev.bytes

\* The commands run so far, without the removal of the temp directory at
\* the end.
body_steps ==
  LET n == Len(sys_trace)
      m == IF n > 0 /\ sys_trace[n].step = "rmrf" THEN n - 1 ELSE n
  IN  [i \in 1..m |-> sys_trace[i].step]

\* The user a command of the operation ran as, when it has run.
ran_as(step, user) ==
  \A i \in 1..Len(sys_trace) : sys_trace[i].step = step => sys_trace[i].user = user

\* The user commands ran as when the operation was called.
user0 == IF sys_op.sudo0 THEN "root" ELSE SessionUser

\* What C29 says of Ssh.put apart from the user of chown: the commands run
\* in the order whoami, mktemp, chown, transfer, cp, a put that raises
\* nothing having run them all; whoami runs without sudo and cp as commands
\* ran when put was called; a temp directory exists only between mktemp and
\* the end of put, and is removed by the last command when it was made; and
\* use_sudo is what it was, at every step after whoami and at the end.
put_protocol ==
  /\ body_steps = SubSeq(PutOrder, 1, Len(body_steps))
  /\ (sys_op.pc = "done" /\ sys_exc = "none") => Len(body_steps) = 5
  /\ ran_as("whoami", SessionUser)
  /\ ran_as("cp", user0)
  /\ sys_tmp.exists = (sys_op.pc \in {"chown", "transfer", "cp", "rmrf"})
  /\ (sys_op.pc = "done" /\ Len(body_steps) >= 3)
       => sys_trace[Len(sys_trace)].step = "rmrf"
  /\ sys_op.pc # "whoami" => sys_obj.use_sudo = sys_op.sudo0

C30_HostIdentityStable ==
  sys_in.cls = "Ssh" =>
    /\ sys_host = sys_in.host
    /\ sys_name = (IF sys_in.name # Nil THEN sys_in.name ELSE sys_in.host)
    /\ sys_obj._conn # Nil => sys_obj._conn = sys_in.host
    /\ sys_exc # "ConnectError"

\* ---------------------------------------------------------------------
\* The scopes sudo() and nosudo() of System, and run() inside them.

\* The deepest nesting of scopes.
MaxScopes == 2

\* sudo(user, login) up to its yield: the three fields are saved and set.
sudo_enter(obj, user, login) ==
  [use_sudo |-> TRUE, sudo_user |-> user, sudo_login |-> login]

\* The finally clause of sudo() without the line for sudo_user.
sudo_exit_keeps_user(obj, saved) ==
  [obj EXCEPT !.use_sudo = saved.o_use_sudo, !.sudo_login = saved.o_sudo_login]

\* The finally clause of sudo(): the three saved fields are put back.
sudo_exit(obj, saved) ==
  [use_sudo |-> saved.o_use_sudo, sudo_user |-> saved.o_sudo_user,
   sudo_login |-> saved.o_sudo_login]

\* What a scope keeps while it is open: its kind and arguments, the locals
\* o_use_sudo, o_sudo_user, o_sudo_login (the last two of sudo() only), and,
\* for the record, the System as it was.
opened(kind, user, login, obj) ==
  [kind |-> kind, user |-> user, login |-> login,
   o_use_sudo |-> obj.use_sudo,
   o_sudo_user |-> IF kind = "sudo" THEN obj.sudo_user ELSE Nil,
   o_sudo_login |-> IF kind = "sudo" THEN obj.sudo_login ELSE FALSE,
   before |-> obj]

\* Local.run: the keyword arguments it adds for run(); Ssh.run: Client.sudo
\* with user and login, or Client.run.
run_kwargs(cls, obj) ==
  IF cls = "Local"
    THEN [made |-> TRUE,
          sudo |-> obj.use_sudo,
          user |-> IF obj.use_sudo /\ obj.sudo_user # Nil THEN obj.sudo_user ELSE Nil,
          login |-> obj.use_sudo /\ obj.sudo_login = TRUE]
    ELSE [made |-> TRUE,
          sudo |-> obj.use_sudo,
          user |-> IF obj.use_sudo THEN obj.sudo_user ELSE Nil,
          login |-> IF obj.use_sudo THEN obj.sudo_login ELSE FALSE]

\* `with system.sudo(user, login):` is entered.
ScopeSudo ==
  /\ ~sc_raising
  /\ Len(sc_stack) < MaxScopes
  /\ \E user \in {Nil, "app"}, login \in BOOLEAN :
       /\ sc_stack' = Append(sc_stack, opened("sudo", user, login, sc_obj))
       /\ sc_obj' = sudo_enter(sc_obj, user, login)
  /\ UNCHANGED <<sc_in, sc_raising, sc_last, sc_hist>>
  /\ UNCHANGED scOthers

\* `with system.nosudo():` is entered.
ScopeNosudo ==
  /\ ~sc_raising
  /\ Len(sc_stack) < MaxScopes
  /\ sc_stack' = Append(sc_stack, opened("nosudo", Nil, FALSE, sc_obj))
  /\ sc_obj' = nosudo_enter(sc_obj)
  /\ UNCHANGED <<sc_in, sc_raising, sc_last, sc_hist>>
  /\ UNCHANGED scOthers

\* run() on the System, inside the scopes that are open.
ScopeRun ==
  /\ ~sc_raising
  /\ sc_last' = run_kwargs(sc_in.cls, sc_obj)
  /\ sc_last' # sc_last
  /\ UNCHANGED <<sc_in, sc_obj, sc_stack, sc_raising, sc_hist>>
  /\ UNCHANGED scOthers

\* The body of the innermost scope raises.
ScopeThrow ==
  /\ ~sc_raising
  /\ sc_stack # <<>>
  /\ sc_raising' = TRUE
  /\ UNCHANGED <<sc_in, sc_obj, sc_stack, sc_last, sc_hist>>
  /\ UNCHANGED scOthers

\* The innermost scope is left, by the end of its body or by the exception:
\* the finally clause of sudo() or of nosudo() runs.
ScopeLeave ==
  /\ sc_stack # <<>>
  /\ LET top == sc_stack[Len(sc_stack)]
     IN  sc_obj' = IF top.kind = "sudo" THEN sudo_exit(sc_obj, top)
                   ELSE nosudo_exit(sc_obj, top.o_use_sudo)
  /\ sc_stack' = SubSeq(sc_stack, 1, Len(sc_stack) - 1)
  /\ sc_hist' = (sc_hist \/ (sc_raising /\ Len(sc_stack) > 1))
  /\ UNCHANGED <<sc_in, sc_raising, sc_last>>
  /\ UNCHANGED scOthers

\* The caller of the outermost scope handles the exception.
ScopeCatch ==
  /\ sc_raising
  /\ sc_stack = <<>>
  /\ sc_raising' = FALSE
  /\ UNCHANGED <<sc_in, sc_obj, sc_stack, sc_last, sc_hist>>
  /\ UNCHANGED scOthers

ScopeInit ==
  /\ DeployParked
  /\ LogStart
  /\ TreeStart
  /\ PoolStart
  /\ SysStart
  /\ TeeStart
  /\ ScrubStart
  /\ SudoStart
  /\ TaskStart
  /\ RunStartState
  /\ ConfStart
  /\ ContextStart
  /\ sc_in \in [cls : {"Local", "Ssh"}, sudo : BOOLEAN]
  /\ ScopeIdle

ScopeNext ==
  \/ ScopeSudo
  \/ ScopeNosudo
  \/ ScopeRun
  \/ ScopeThrow
  \/ ScopeLeave
  \/ ScopeCatch

ScopeSpec == ScopeInit /\ [][ScopeNext]_vars

\* The scope a run is made in: the innermost one.
innermost == sc_stack[Len(sc_stack)]

init_raises == wk_how = "kwargs"

\* Deployment(...), and `deployment.workers = w` after it when the count is
\* not given to the constructor.
PoolConstruct ==
  /\ wk_pc = "new"
  /\ wk_pc' = IF init_raises THEN "failed" ELSE "built"
  /\ UNCHANGED <<workers, wk_how>>
  /\ UNCHANGED wkOthers


\* pool.ThreadPool(self.workers): that many worker threads (with None, as
\* many as the machine has processors, taken here to be enough for the
\* fleet).
pool_size == IF workers = 0 THEN NHosts ELSE workers

\* The replicas a worker thread is running.
busy == {h \in Hosts : pc[h] \notin {"idle", "exited"}}

\* p.map(fn, items): a free worker takes the next item, in the order of the
\* hosts, and calls the replica.
PoolInvoke(h) ==
  /\ Cardinality(busy) < pool_size
  /\ \A g \in Hosts : g < h => pc[g] # "idle"
  /\ Start(h)

\* A replica that a worker has called.
Invoked(h) ==
  \/ WaitCheck(h)
  \/ WaitEnter(h)
  \/ WaitRecheck(h)
  \/ RunStart(h)
  \/ Body(h)
  \/ Predicate(h)
  \/ Handler(h)
  \/ Exit(h)
  \/ Return(h)

PoolInit ==
  /\ method \in Methods
  /\ synchronize \in BOOLEAN
  /\ fail_early \in BOOLEAN
  /\ DeployStart
  /\ TaskStart
  /\ RunStartState
  /\ ConfStart
  /\ ContextStart
  /\ ScrubStart
  /\ SudoStart
  /\ TeeStart
  /\ SysStart
  /\ ScopeStart
  /\ LogStart
  /\ TreeStart
  /\ workers \in 1..NHosts
  /\ wk_how \in {"kwargs", "attribute"}
  /\ wk_pc = "new"

\* What a worker thread and the drive loop's thread do.
PoolWorker(h) == wk_pc = "built" /\ (PoolInvoke(h) \/ Invoked(h))
PoolDrive == wk_pc = "built" /\ DriveLoop

\* No thread can take a step: only the passing of time changes anything.
stalled == ~ENABLED (PoolDrive \/ \E h \in Hosts : PoolWorker(h))

\* A timed wait expires (the 2.0 s of _wait_for_start, the timeout of the
\* ready barrier) only when nothing else can happen, and the handler of
\* _run then runs to the end.
PoolTimeout ==
  /\ wk_pc = "built"
  /\ \/ stalled /\ LoopTimeout
     \/ stalled /\ \E h \in Hosts : WaitTimeout(h)
     \/ LoopExcept
     \/ JoinRaise

PoolNextTimely ==
  \/ PoolConstruct
  \/ \E h \in Hosts : PoolWorker(h)
  \/ PoolDrive
  \/ PoolTimeout

PoolFairness ==
  /\ WF_vars(PoolConstruct)
  /\ \A h \in Hosts : WF_vars(PoolWorker(h))
  /\ WF_vars(PoolDrive)
  /\ WF_vars(PoolTimeout)

PoolTimelySpec == PoolInit /\ [][PoolNextTimely]_vars /\ PoolFairness

\* C32: whatever the worker count from 1 to the number of hosts, every
\* replica is eventually called on its host, the drive loop leaves its wait
\* for the start, and _run returns a result for every host.
C32_SmallPoolCompletes ==
  /\ \A h \in Hosts : <>(pc[h] # "idle")
  /\ <>(lpc # "wait_start")
  /\ <>(lpc = "returned" /\ \A h \in Hosts : result[h].t # "pending")

\* ---------------------------------------------------------------------
\* Failure of the drive loop: ThreadExecutor._run's `except BaseException`.

\* The statements of _run's try block: _run_loop and pool.join().
InTry ==
  {"wait_start", "wait_ready", "notify_ready", "loop", "sync_test", "notify_sync",
   "after_loop", "join"}

\* An exception that is neither of the two timeouts is raised in the try
\* block, in the thread that called apply or delete (a KeyboardInterrupt
\* during a sleep of the loop, for one).
LoopInterrupt ==
  /\ lpc \in InTry
  /\ outcome' = [outcome EXCEPT !.exc = "KeyboardInterrupt"]
  /\ lpc' = "except"
  /\ UNCHANGED otherVars
  /\ UNCHANGED <<paramVars, coordVars, system, changes, applied, pc, cond, k, exc,
                 result, nReady, nDone, exited>>

\* The handler of _run: cancel if the pool is alive, join, re-raise.
LoopHandler == LoopExcept \/ JoinRaise

FailNext ==
  \/ \E h \in Hosts : Replica(h)
  \/ DriveLoop
  \/ LoopTimeout
  \/ LoopInterrupt
  \/ LoopHandler
  \/ \E h \in Hosts : WaitTimeout(h)

\* Every thread that can run does run, and a wait that has a timeout does
\* not outlast it.
FailFairness ==
  /\ \A h \in Hosts : WF_vars(Replica(h))
  /\ \A h \in Hosts : WF_vars(WaitTimeout(h))
  /\ WF_vars(DriveLoop)
  /\ WF_vars(LoopHandler)

FailSpec == Init /\ [][FailNext]_vars /\ FailFairness

\* The exceptions the drive loop raises.
LoopErrors == {"TimeoutError", "RuntimeError", "KeyboardInterrupt"}

\* The exception has left _run.
propagated == lpc = "finished" /\ outcome.t = "raise" /\ outcome.exc \in LoopErrors

\* C33: when the drive loop raises with the pool alive, the coordinator is
\* cancelled and every worker has returned before the exception leaves _run,
\* and the join of the handler always returns.
C33_DriveLoopFailure ==
  /\ []((lpc = "join_raise" /\ pool_alive) => cancelled)
  /\ [](propagated => ~pool_alive)
  /\ (lpc = "except") ~> propagated

\* C34: on every barrier the waiters are never more than the active
\* replicas, so awaiting's >= holds exactly when the two numbers are equal
\* (on a barrier that is in use: sync with synchronize off is never awaited).
C34_WaitersWithinActive ==
  \A c \in Conds :
    /\ Cardinality(waiters[c]) <= Cardinality(active)
    /\ awaiting(c) <=> (~wait_is_noop(c) /\ Cardinality(waiters[c]) = Cardinality(active))

\* A replica has left the run and the others fill a barrier.
C34_Witness ==
  \E c \in Conds :
    /\ active # {}
    /\ active # Hosts
    /\ waiters[c] = active

(***************************************************************************)
(* BaseConfiguration._run_method over included configurations              *)
(* (config.py, _run_includes and _run_method)                              *)
(***************************************************************************)

\* The trees under test, as config_include of each configuration.
NoIncludes == [n \in TreeNodes |-> <<>>]
Includes ==
  {NoIncludes,
   [NoIncludes EXCEPT ![1] = <<2>>],
   [NoIncludes EXCEPT ![1] = <<2, 3>>],
   [NoIncludes EXCEPT ![1] = <<3, 2>>, ![2] = <<4>>]}

\* The configurations of the tree in use.
RECURSIVE Subtree(_)
Subtree(n) ==
  {n} \cup UNION {Subtree(tr_in.include[n][i]) : i \in DOMAIN tr_in.include[n]}

\* sum(list) and all(list).
RECURSIVE sum(_)
sum(list) == IF list = <<>> THEN 0 ELSE Head(list) + sum(Tail(list))
all(list) == \A i \in DOMAIN list : list[i]

\* A frame of _run_method: the configuration, the position, the index of the
\* next include, include_res (totals or truth values) and the value of the
\* return statement.
Frame(n) ==
  [node |-> n, pc |-> "ready", idx |-> 1, res |-> <<>>, oks |-> <<>>,
   value |-> [changes |-> 0, applied |-> FALSE]]

Top == tr_stack[Len(tr_stack)]
Running == {tr_stack[i].node : i \in DOMAIN tr_stack}
SetTop(f) == [tr_stack EXCEPT ![Len(tr_stack)] = f]

\* The head of _run_method: a configuration called with a system binds what
\* it is given; one called with its parent takes the parent's fields.
bind_system(o) ==
  [o EXCEPT !.parent = 0, !.system = "host", !.coordinator = tr_in.coordinator,
            !.args = "args", !.kwargs = "kwargs", !.packages = "packman"]
bind_parent(o, p) ==
  [o EXCEPT !.parent = p, !.system = tr_obj[p].system,
            !.coordinator = tr_obj[p].coordinator, !.args = tr_obj[p].args,
            !.kwargs = tr_obj[p].kwargs, !.packages = tr_obj[p].packages]

\* _run_includes with every method in declared order.
include_declared(n) == tr_in.include[n]

\* _run_includes: `include = reversed(include)` for delete.
include(n) ==
  IF tr_in.method = "delete" THEN reversed(tr_in.include[n]) ELSE tr_in.include[n]

\* The exception of the configuration that is made to fail.
raises_at(n, at) == tr_in.bad = n /\ tr_in.at = at
Thrown(n) == [kind |-> tr_in.error, changes |-> tr_obj[n].changes, cause |-> "none"]

\* config.apply(system, coordinator=...), delete or is_applied.
TreeCall ==
  /\ tr_stack = <<>>
  /\ tr_calls = <<>>
  /\ tr_obj' = [tr_obj EXCEPT ![1] = bind_system(@)]
  /\ tr_stack' = <<Frame(1)>>
  /\ tr_calls' = <<1>>
  /\ UNCHANGED <<tr_in, tr_exc, tr_out>>
  /\ UNCHANGED trOthers

\* self._ready(): the wait returns, or raises Cancel.
TreeReady ==
  /\ tr_stack # <<>>
  /\ Top.pc = "ready"
  /\ IF raises_at(Top.node, "ready")
       THEN /\ tr_exc' = [Thrown(Top.node) EXCEPT !.kind = "Cancel"]
            /\ tr_stack' = SetTop([Top EXCEPT !.pc = "handler"])
       ELSE /\ tr_exc' = tr_exc
            /\ tr_stack' = SetTop([Top EXCEPT !.pc = "includes"])
  /\ UNCHANGED <<tr_in, tr_obj, tr_calls, tr_out>>
  /\ UNCHANGED trOthers

\* _run_includes: the next included configuration is called with self.
TreeInclude ==
  /\ tr_stack # <<>>
  /\ Top.pc = "includes"
  /\ Top.idx <= Len(include(Top.node))
  /\ LET c == include(Top.node)[Top.idx]
     IN  /\ tr_obj' = [tr_obj EXCEPT ![c] = bind_parent(@, Top.node)]
         /\ tr_stack' = Append(tr_stack, Frame(c))
         /\ tr_calls' = Append(tr_calls, c)
  /\ UNCHANGED <<tr_in, tr_exc, tr_out>>
  /\ UNCHANGED trOthers

\* After the includes: `self.changes += sum(include_res)` unless the method
\* is is_applied, then on_start().
TreeStartWork ==
  /\ tr_stack # <<>>
  /\ Top.pc = "includes"
  /\ Top.idx > Len(include(Top.node))
  /\ tr_obj' = [tr_obj EXCEPT ![Top.node].changes =
                  IF tr_in.method # "is_applied" THEN @ + sum(Top.res) ELSE @]
  /\ tr_stack' = SetTop([Top EXCEPT !.pc = "work"])
  /\ UNCHANGED <<tr_in, tr_exc, tr_calls, tr_out>>
  /\ UNCHANGED trOthers

\* `return self.applied if method == 'is_applied' else self.changes`.
return_value(n, res) == [changes |-> tr_obj[n].changes, applied |-> res]

\* res = on_work(): the Tasks of on_apply and on_delete add their counts to
\* self.changes, also when one of them raises; on_is_applied gives a truth
\* value and `res = all(include_res + [res])`.  Then on_finish() and
\* _done(), and the return statement is evaluated.
TreeWork ==
  /\ tr_stack # <<>>
  /\ Top.pc = "work"
  /\ LET n == Top.node
         made == IF tr_in.method = "is_applied" THEN 0 ELSE tr_in.own[n]
         o == [tr_obj[n] EXCEPT !.changes = @ + made]
         res == all(Top.oks \o <<tr_in.ok[n]>>)
     IN  /\ tr_obj' = [tr_obj EXCEPT ![n] = o]
         /\ IF raises_at(n, "work")
              THEN /\ tr_exc' = [Thrown(n) EXCEPT !.changes = o.changes]
                   /\ tr_stack' = SetTop([Top EXCEPT !.pc = "handler"])
              ELSE /\ tr_exc' = tr_exc
                   /\ tr_stack' = SetTop([Top EXCEPT !.pc = "return", !.oks = <<res>>])
  /\ UNCHANGED <<tr_in, tr_calls, tr_out>>
  /\ UNCHANGED trOthers

TreeReturn ==
  /\ tr_stack # <<>>
  /\ Top.pc = "return"
  /\ tr_stack' = SetTop([Top EXCEPT !.pc = "finally",
                                    !.value = return_value(Top.node, Top.oks[1])])
  /\ UNCHANGED <<tr_in, tr_obj, tr_exc, tr_calls, tr_out>>
  /\ UNCHANGED trOthers

\* The except clause: Cancel and Fail are updated with self.changes and
\* re-raised after on_cancel() or on_error(); anything else cancels the
\* coordinator when fail_early is set and is raised as Fail(self, exc_info).
TreeHandler ==
  /\ tr_stack # <<>>
  /\ Top.pc = "handler"
  /\ LET n == Top.node
     IN  IF tr_exc.kind \in {"Cancel", "Fail"}
           THEN /\ tr_exc' = [tr_exc EXCEPT !.changes = @ + tr_obj[n].changes]
                /\ tr_out' = tr_out
           ELSE /\ tr_exc' = [kind |-> "Fail", changes |-> tr_obj[n].changes,
                              cause |-> tr_exc.kind]
                /\ tr_out' = [tr_out EXCEPT ![n].cancelled =
                                tr_obj[n].coordinator # Nil /\ tr_in.fail_early]
  /\ tr_stack' = SetTop([Top EXCEPT !.pc = "raising"])
  /\ UNCHANGED <<tr_in, tr_obj, tr_calls>>
  /\ UNCHANGED trOthers

\* A reset that runs only when the try block returns.
resets_on_return(pos) == pos = "finally"

\* `finally: self.reset()`: on the way out by return and by exception.
resets(pos) == pos \in {"finally", "raising"}

\* The frame is left: reset, then the value goes to the caller's include_res
\* (or to the caller of the operation), or the exception to the caller's
\* except clause.
TreeFinally ==
  /\ tr_stack # <<>>
  /\ Top.pc \in {"finally", "raising"}
  /\ LET n == Top.node
         up == SubSeq(tr_stack, 1, Len(tr_stack) - 1)
         returned == Top.pc = "finally"
     IN  /\ tr_obj' = [tr_obj EXCEPT ![n] = IF resets(Top.pc) THEN reset_fields ELSE @]
         /\ tr_out' = [tr_out EXCEPT ![n] =
                         [t |-> IF returned THEN "value" ELSE "raise",
                          changes |-> IF returned THEN Top.value.changes ELSE tr_exc.changes,
                          applied |-> returned /\ Top.value.applied,
                          total |-> tr_obj[n].changes,
                          cancelled |-> @.cancelled]]
         /\ tr_stack' =
              IF up = <<>> THEN up
              ELSE [up EXCEPT ![Len(up)] =
                      IF returned
                        THEN [@ EXCEPT !.idx = @ + 1,
                                       !.res = Append(@, Top.value.changes),
                                       !.oks = Append(@, Top.value.applied)]
                        ELSE [@ EXCEPT !.pc = "handler"]]
  /\ UNCHANGED <<tr_in, tr_exc, tr_calls>>
  /\ UNCHANGED trOthers

TreeInit ==
  /\ DeployParked
  /\ LogStart
  /\ TaskStart
  /\ RunStartState
  /\ ConfStart
  /\ ContextStart
  /\ ScrubStart
  /\ SudoStart
  /\ TeeStart
  /\ SysStart
  /\ ScopeStart
  /\ LogStart
  /\ PoolStart
  /\ \E m \in Methods, inc \in Includes, b \in 0..4, e \in {"Error", "Cancel"},
        at \in {"ready", "work"}, co \in {Nil, "coordinator"}, fe \in BOOLEAN,
        own \in [TreeNodes -> 0..1], ok \in [TreeNodes -> BOOLEAN] :
       /\ at = "ready" => e = "Cancel" /\ co # Nil
       /\ b = 0 => e = "Error" /\ at = "work"
       /\ co = Nil => ~fe
       /\ tr_in = [method |-> m, include |-> inc, own |-> own, ok |-> ok, bad |-> b,
                   error |-> e, at |-> at, coordinator |-> co, fail_early |-> fe]
  /\ \A n \in TreeNodes \ Subtree(1) : tr_in.own[n] = 0 /\ tr_in.ok[n] /\ tr_in.bad # n
  /\ TreeIdle

TreeNext ==
  \/ TreeCall
  \/ TreeReady
  \/ TreeInclude
  \/ TreeStartWork
  \/ TreeWork
  \/ TreeReturn
  \/ TreeHandler
  \/ TreeFinally

TreeSpec == TreeInit /\ [][TreeNext]_vars

\* Coordinator.active, for the configuration the operation was called on.
tree_active == tr_obj[1].system # Nil

\* C35: a configuration's fields are bound exactly while its _run_method
\* runs: once it has returned or raised, system, coordinator, packages and
\* args are None and changes is 0, so it does not count as active; and the
\* value apply and delete return is the change total as it stood before the
\* reset.
C35_ActiveWhileRunning ==
  /\ \A n \in TreeNodes \ Running : tr_obj[n] = reset_fields
  /\ \A n \in Running : tr_obj[n].system # Nil /\ tr_obj[n].packages # Nil
  /\ tree_active <=> tr_stack # <<>>
  /\ \A n \in TreeNodes :
       (tr_out[n].t = "value" /\ tr_in.method # "is_applied")
         => tr_out[n].changes = tr_out[n].total

\* The operation has raised after an included configuration returned a
\* total above zero, and one that returned a total has returned.
C35_Witness ==
  /\ tr_stack = <<>>
  /\ tr_out[1].t = "raise"
  /\ \E n \in TreeNodes : tr_out[n].t = "value" /\ tr_out[n].changes > 0

\* No replica waits or is about to wait on sync, and the loop does not see
\* sync awaited or notify it.
sync_unused ==
  /\ waiters["sync"] = {}
  /\ \A h \in Hosts : ~(pc[h] \in {"wait_enter", "parked"} /\ cond[h] = "sync")
  /\ ~awaiting("sync")
  /\ lpc # "notify_sync"

\* A replica is past its ready wait only after notify('ready'), and returns
\* from its done wait only after notify('done').
rendezvous ==
  \A h \in Hosts :
    /\ pc[h] \in {"on_start", "body", "work"} => nReady > 0
    /\ pc[h] = "return" => nDone > 0

\* C36: with synchronize off no replica blocks at a sync point, the loop
\* never finds sync awaited and never notifies it, the replicas still meet
\* at ready and at done, and the run terminates.
C36_SyncOff ==
  /\ [](~synchronize => sync_unused)
  /\ [](~synchronize => rendezvous)
  /\ ~synchronize => <>(lpc = "finished")

\* The totals and the truth values the included configurations of n returned.
RECURSIVE included_total(_)
included_total(list) ==
  IF list = <<>> THEN 0 ELSE tr_out[Head(list)].changes + included_total(Tail(list))
included_applied(n) == \A i \in DOMAIN tr_in.include[n] : tr_out[tr_in.include[n][i]].applied

\* The included configurations of n in the order they were called.
called_of(n) ==
  LET of_n(c) == \E i \in DOMAIN tr_in.include[n] : tr_in.include[n][i] = c
  IN  SelectSeq(tr_calls, of_n)

\* C37: apply and delete return the configuration's own change total plus
\* the totals its included configurations returned; is_applied returns true
\* exactly when every included configuration's is_applied and its own
\* on_is_applied are true; the includes run in declared order for apply and
\* is_applied and in reverse order for delete.
C37_IncludeAggregation ==
  \A n \in TreeNodes :
    /\ (tr_out[n].t = "value" /\ tr_in.method # "is_applied")
         => tr_out[n].changes = tr_in.own[n] + included_total(tr_in.include[n])
    /\ (tr_out[n].t = "value" /\ tr_in.method = "is_applied")
         => (tr_out[n].applied <=> (tr_in.ok[n] /\ included_applied(n)))
    /\ LET order == IF tr_in.method = "delete" THEN reversed(tr_in.include[n])
                     ELSE tr_in.include[n]
       IN  /\ Len(called_of(n)) <= Len(order)
           /\ called_of(n) = SubSeq(order, 1, Len(called_of(n)))
    /\ tr_out[n].t = "value" => Len(called_of(n)) = Len(tr_in.include[n])

\* A delete of a configuration with two includes has returned a total that
\* counts its own change and theirs.
C37_Witness ==
  /\ tr_stack = <<>>
  /\ tr_in.method = "delete"
  /\ Len(tr_in.include[1]) = 2
  /\ tr_out[1].t = "value"
  /\ tr_in.own[1] = 1
  /\ tr_out[1].changes >= 3

\* The replica's operation has returned (the worker has its value, not an
\* exc_info triple).
returned_normally(h) == pc[h] = "exited" /\ result[h].t # "exc_info"

\* C38: with fail_early off and synchronize on, a replica that does not fail
\* itself passes every sync barrier and the done barrier and returns its
\* change total whatever the other replicas do, and the drive loop ends.
C38_FailureDoesNotStall ==
  (synchronize /\ ~fail_early) =>
    /\ \A h \in Hosts : <>(pc[h] = "handler" \/ returned_normally(h))
    /\ [](\A h \in Hosts : pc[h] = "return" => changes[h] = exited[h])
    /\ <>(lpc \in {"returned", "finished"})

\* One replica has failed, another has gone through both Tasks with a change
\* in each and returned, and the run is over.
C38_Witness ==
  /\ synchronize
  /\ ~fail_early
  /\ lpc = "finished"
  /\ \E g \in Hosts : result[g].t = "exc_info" /\ result[g].kind = "Fail"
  /\ \E h \in Hosts : returned_normally(h) /\ exited[h] = NTasks

\* C39: however stop() falls against the start of the Tee's thread, also
\* before the thread's body has begun, the pump begins at most one read
\* after stop() and then ends.
C39_StopNotLost ==
  /\ [](tee_hist.after <= 1)
  /\ tee_hist.stopped ~> (tee_pc = "done")

(***************************************************************************)
(* log_context: what run() and the guards log at level NOISE               *)
(***************************************************************************)

\* The mappings a program puts in the context with run.Env: empty, a name
\* that is no password, and a password held as str and as bytes.
LogEnvs ==
  {DMap(<<>>),
   DMap(<< <<<<"u", "s", "e", "r">>, DStr(Secret)>> >>),
   DMap(<< <<<<"P", "A", "S", "S">>, DStr(Secret)>> >>),
   DMap(<< <<<<"x", "p", "a", "s", "s">>, DBytes(Secret)>> >>)}

\* log_context(log): nothing unless the logger is enabled for NOISE; else
\* scrub(dict(run.context())).  dict() copies the context's keys, not the
\* values: the str under sudo_password is replaced in the copy, and a mapping
\* under env is the caller's own object, which scrub(value) changes in place.
log_context(c) ==
  IF noise /\ c["env"] = PyObj("env") THEN scrub(env_obj, Tag) ELSE env_obj

\* __enter__ logs the context it finds, before push.
LogEnter ==
  /\ enter
  /\ env_obj' = log_context(ctx)
  /\ UNCHANGED <<env0, noise>>
  /\ UNCHANGED <<deployVars, taskVars, runVars, confVars, scrubVars, suVars, teeVars,
                 sysVars, scVars, wkVars, trVars>>

\* __exit__ logs the context it leaves, unless autounset or pop raised.
LogLeave ==
  /\ leave
  /\ env_obj' = IF raising' = raising THEN log_context(ctx') ELSE env_obj
  /\ UNCHANGED <<env0, noise>>
  /\ UNCHANGED <<deployVars, taskVars, runVars, confVars, scrubVars, suVars, teeVars,
                 sysVars, scVars, wkVars, trVars>>

\* run(): log_context(log) first, before merge_args and before anything can
\* raise, and once more with the same context when it returns.
LogRun ==
  /\ run
  /\ env0' = env_obj
  /\ env_obj' = log_context(ctx)
  /\ UNCHANGED noise
  /\ UNCHANGED <<deployVars, taskVars, runVars, confVars, scrubVars, suVars, teeVars,
                 sysVars, scVars, wkVars, trVars>>

LogInit ==
  /\ DeployParked
  /\ TaskStart
  /\ RunStartState
  /\ ConfStart
  /\ ScrubStart
  /\ SudoStart
  /\ TeeStart
  /\ SysStart
  /\ ScopeStart
  /\ PoolStart
  /\ TreeStart
  /\ ContextIdle
  /\ defaults = Defaults
  /\ env_obj \in LogEnvs
  /\ env0 = env_obj
  /\ noise \in BOOLEAN

LogNext ==
  \/ LogEnter
  \/ Throw
  \/ LogLeave
  \/ Catch
  \/ LogRun

LogSpec == LogInit /\ [][LogNext]_vars

\* C40: after a call of run(), returning or raising, every variable of the
\* thread's context is what it was before the call, the sink lists and the
\* items of an env mapping included.
C40_RunLeavesContext ==
  ran.t # "none" =>
    /\ ctx = ran.ctx0
    /\ defaults = ran.defaults0
    /\ env_obj = env0

====
